---- MODULE Spec2Model ----
(***************************************************************************)
(* Semester timetable builder: the timetable grid (entries, progress,      *)
(* valid slots, constraint validation), the schedule-builder modal and the *)
(* room assignment engine (suitability scoring, auto-assignment, manual    *)
(* assignment, room-conflict detection).                                   *)
(***************************************************************************)
EXTENDS Integers, Sequences, FiniteSets, TLC

VARIABLES
    viewMode,             \* TimetableGrid: "class" | "teacher"
    selectedEntity,       \* TimetableGrid: id of the selected class/teacher, "" = none
    selectedSubject,      \* TimetableGrid: selected subject id, "" = null
    timetableEntries,     \* TimetableGrid: TimetableEntry[]
    conflicts,            \* TimetableGrid: Conflict[]
    showScheduleBuilder,  \* TimetableGrid: the schedule-builder modal is open
    modalSubject,         \* ScheduleBuilderModal: its own selectedSubject, "" = null
    gridRoomAssignments,  \* TimetableGrid: copy of the engine's assignments (callback)
    classrooms,           \* RoomAssignmentEngine: the room catalogue
    roomAssignments,      \* RoomAssignmentEngine: RoomAssignment[]
    roomConflicts,        \* RoomAssignmentEngine: RoomConflict[]
    clock,                \* Date.now(), the source of entry ids
    lastOp,               \* history: the last handler that ran and its outcome
    teacherAssignments,   \* TeacherAssignmentManager: assignments, ClassSubjectTeacher[]
    selectedClass,        \* TeacherAssignmentManager: "" = none
    managerSubject,       \* TeacherAssignmentManager: its selectedSubject, "" = none
    selectedTeacher,      \* TeacherAssignmentManager: "" = none
    assignmentConflicts,  \* TeacherAssignmentManager: conflicts, TeacherAssignmentConflict[]
    gradeAllocations,     \* SubjectSetup: allocations, GradeSubjectAllocation[]
    selectedGrade,        \* SubjectSetup: "all" or a grade id
    selectedSubjectForAdd,\* SubjectSetup: "" = none
    editingAllocation,    \* SubjectSetup: id of the row being edited, "" = null
    isPublished,          \* TimetableBuilder page: a timetable has been published
    publishedEntries      \* TimetableBuilder page: timetableEntries, the published snapshot

vars == << viewMode, selectedEntity, selectedSubject, timetableEntries, conflicts,
           showScheduleBuilder, modalSubject, gridRoomAssignments, classrooms,
           roomAssignments, roomConflicts, clock, lastOp,
           teacherAssignments, selectedClass, managerSubject, selectedTeacher,
           assignmentConflicts,
           gradeAllocations, selectedGrade, selectedSubjectForAdd, editingAllocation,
           isPublished, publishedEntries >>

gridVars == << viewMode, selectedEntity, selectedSubject, showScheduleBuilder, modalSubject >>
engineVars == << gridRoomAssignments, classrooms, roomAssignments, roomConflicts >>
managerVars == << teacherAssignments, selectedClass, managerSubject, selectedTeacher,
                  assignmentConflicts >>
setupVars == << gradeAllocations, selectedGrade, selectedSubjectForAdd, editingAllocation >>
pageVars == << isPublished, publishedEntries >>
adminVars == << managerVars, setupVars, pageVars >>
builderVars == << viewMode, selectedEntity, selectedSubject, timetableEntries, conflicts,
                  showScheduleBuilder, modalSubject, gridRoomAssignments, classrooms,
                  roomAssignments, roomConflicts >>

----------------------------------------------------------------------------
(* Bounds of the model *)

MaxEntries == 3      \* at most this many timetable entries at a time
MaxRoomEntries == 2  \* the same, in the room assignment session
MaxLen == 3          \* longest arbitrary entry list given to validateConstraints

----------------------------------------------------------------------------
(* Sequence helpers *)

Range(s) == { s[i] : i \in 1..Len(s) }

\* the indices of s, in order
Indices(s) == [i \in 1..Len(s) |-> i]

\* index of the first element satisfying P, 0 when there is none (Array.prototype.find)
FirstIndex(s, P(_)) ==
    IF \E i \in 1..Len(s) : P(s[i])
    THEN CHOOSE i \in 1..Len(s) : P(s[i]) /\ \A j \in 1..(i - 1) : ~P(s[j])
    ELSE 0

Max0(x) == IF x > 0 THEN x ELSE 0

----------------------------------------------------------------------------
(* Reference data: src/lib/timetable-data.ts *)

subjects == << "1", "2", "3", "4", "5", "6", "7", "8" >>

classSections ==
    << [id |-> "1", gradeId |-> "9",  studentCount |-> 30],
       [id |-> "2", gradeId |-> "9",  studentCount |-> 28],
       [id |-> "3", gradeId |-> "10", studentCount |-> 32],
       [id |-> "4", gradeId |-> "10", studentCount |-> 29],
       [id |-> "5", gradeId |-> "11", studentCount |-> 25],
       [id |-> "6", gradeId |-> "12", studentCount |-> 27] >>

teachers ==
    << [id |-> "1", subjects |-> {"1", "3"}, weeklyHourLimit |-> 25],
       [id |-> "2", subjects |-> {"2"},      weeklyHourLimit |-> 30],
       [id |-> "3", subjects |-> {"4", "6"}, weeklyHourLimit |-> 28],
       [id |-> "4", subjects |-> {"8"},      weeklyHourLimit |-> 20],
       [id |-> "5", subjects |-> {"5"},      weeklyHourLimit |-> 35],
       [id |-> "6", subjects |-> {"7"},      weeklyHourLimit |-> 25] >>

\* the configured TimeSlot table: five days of eight periods, ids "1".."40"
SlotDays == << "Monday", "Tuesday", "Wednesday", "Thursday", "Friday" >>
SlotPeriods == 1..8
DayIndex(day) == CHOOSE i \in 1..Len(SlotDays) : SlotDays[i] = day
timeSlots ==
    { [id |-> (d - 1) * 8 + p, day |-> SlotDays[d], period |-> p] :
        d \in 1..Len(SlotDays), p \in SlotPeriods }

\* defaultGradeSubjectAllocations (the allocations prop of the grid)
allocations ==
    << [gradeId |-> "9",  subjectId |-> "1", weeklyHours |-> 5],
       [gradeId |-> "9",  subjectId |-> "2", weeklyHours |-> 4],
       [gradeId |-> "9",  subjectId |-> "3", weeklyHours |-> 4],
       [gradeId |-> "9",  subjectId |-> "4", weeklyHours |-> 3],
       [gradeId |-> "9",  subjectId |-> "5", weeklyHours |-> 2],
       [gradeId |-> "9",  subjectId |-> "6", weeklyHours |-> 2],
       [gradeId |-> "9",  subjectId |-> "7", weeklyHours |-> 1],
       [gradeId |-> "9",  subjectId |-> "8", weeklyHours |-> 2],
       [gradeId |-> "10", subjectId |-> "1", weeklyHours |-> 5],
       [gradeId |-> "10", subjectId |-> "2", weeklyHours |-> 4],
       [gradeId |-> "10", subjectId |-> "3", weeklyHours |-> 4],
       [gradeId |-> "10", subjectId |-> "4", weeklyHours |-> 3],
       [gradeId |-> "10", subjectId |-> "5", weeklyHours |-> 2],
       [gradeId |-> "10", subjectId |-> "6", weeklyHours |-> 2],
       [gradeId |-> "10", subjectId |-> "7", weeklyHours |-> 1],
       [gradeId |-> "10", subjectId |-> "8", weeklyHours |-> 3] >>

\* defaultClassSubjectTeachers (the assignments prop of the grid)
assignments ==
    << [id |-> "1", classId |-> "1", subjectId |-> "1", teacherId |-> "1", isActive |-> TRUE],
       [id |-> "2", classId |-> "1", subjectId |-> "2", teacherId |-> "2", isActive |-> TRUE],
       [id |-> "3", classId |-> "1", subjectId |-> "3", teacherId |-> "1", isActive |-> TRUE],
       [id |-> "4", classId |-> "1", subjectId |-> "4", teacherId |-> "3", isActive |-> TRUE],
       [id |-> "5", classId |-> "1", subjectId |-> "5", teacherId |-> "5", isActive |-> TRUE],
       [id |-> "6", classId |-> "2", subjectId |-> "1", teacherId |-> "1", isActive |-> TRUE],
       [id |-> "7", classId |-> "2", subjectId |-> "2", teacherId |-> "2", isActive |-> TRUE],
       [id |-> "8", classId |-> "2", subjectId |-> "8", teacherId |-> "4", isActive |-> TRUE] >>

\* src/lib/room-assignment-data.ts: defaultSubjectRoomTypes
subjectRoomTypes ==
    << [subjectId |-> "1", roomTypeId |-> "1", priority |-> 1, isRequired |-> FALSE],
       [subjectId |-> "3", roomTypeId |-> "2", priority |-> 1, isRequired |-> TRUE],
       [subjectId |-> "8", roomTypeId |-> "3", priority |-> 1, isRequired |-> TRUE],
       [subjectId |-> "5", roomTypeId |-> "7", priority |-> 1, isRequired |-> TRUE],
       [subjectId |-> "6", roomTypeId |-> "5", priority |-> 1, isRequired |-> FALSE],
       [subjectId |-> "7", roomTypeId |-> "6", priority |-> 1, isRequired |-> FALSE] >>

\* the grid the timetable components iterate over
PERIODS == << 1, 2, 3, 4, 5 >>
DAYS == << "Monday", "Tuesday", "Wednesday", "Thursday", "Friday" >>

periodDuration == 45

----------------------------------------------------------------------------
(* TimetableGrid / ScheduleBuilderModal: progress and valid slots *)

ClassOf(classId) == FirstIndex(classSections, LAMBDA c : c.id = classId)
TeacherOf(teacherId) == FirstIndex(teachers, LAMBDA t : t.id = teacherId)

\* allocation?.weeklyHours || 0
AllocatedHours(gradeId, subjectId) ==
    LET i == FirstIndex(allocations, LAMBDA a : a.gradeId = gradeId /\ a.subjectId = subjectId)
    IN IF i = 0 THEN 0 ELSE allocations[i].weeklyHours

\* availableSubjects: the subjects offered for the selected entity
IsAvailableSubject(mode, entity, subjectId) ==
    /\ entity # ""
    /\ \E k \in 1..Len(subjects) : subjects[k] = subjectId
    /\ IF mode = "class"
       THEN /\ ClassOf(entity) # 0
            /\ \E i \in 1..Len(allocations) :
                  /\ allocations[i].gradeId = classSections[ClassOf(entity)].gradeId
                  /\ allocations[i].subjectId = subjectId
       ELSE /\ TeacherOf(entity) # 0
            /\ subjectId \in teachers[TeacherOf(entity)].subjects

RECURSIVE SumTeacherHours(_, _)
SumTeacherHours(rows, subjectId) ==
    IF rows = << >> THEN 0
    ELSE LET c == ClassOf(Head(rows).classId)
         IN (IF c = 0 THEN 0 ELSE AllocatedHours(classSections[c].gradeId, subjectId))
            + SumTeacherHours(Tail(rows), subjectId)

\* totalHours of subjectProgress
RequiredHours(mode, entity, subjectId) ==
    IF mode = "class"
    THEN IF ClassOf(entity) = 0 THEN 0
         ELSE AllocatedHours(classSections[ClassOf(entity)].gradeId, subjectId)
    ELSE SumTeacherHours(
            SelectSeq(assignments,
                      LAMBDA a : a.teacherId = entity /\ a.subjectId = subjectId /\ a.isActive),
            subjectId)

EntityMatches(mode, entity, entry) ==
    IF mode = "class" THEN entry.classId = entity ELSE entry.teacherId = entity

ScheduledEntries(mode, entity, subjectId, entries) ==
    SelectSeq(entries, LAMBDA e : EntityMatches(mode, entity, e) /\ e.subjectId = subjectId)

\* variant: the percentage taken against twice the required hours
RoundedPercentageOfTwiceTheTotal(n, duration, totalHours) ==
    (2 * 100 * n * duration + 60 * 2 * totalHours) \div (2 * 60 * 2 * totalHours)

\* Math.round((scheduledHours / totalHours) * 100) with scheduledHours = n * duration / 60:
\* Math.round(x) is floor(x + 1/2) for x >= 0
RoundedPercentage(n, duration, totalHours) ==
    (2 * 100 * n * duration + 60 * totalHours) \div (2 * 60 * totalHours)

\* subjectProgress[subjectId].percentage (defined for available subjects only)
Percentage(mode, entity, subjectId, entries) ==
    LET total == RequiredHours(mode, entity, subjectId)
        n == Len(ScheduledEntries(mode, entity, subjectId, entries))
    IN IF total > 0 THEN RoundedPercentage(n, periodDuration, total) ELSE 0

\* the cells of the grid in DAYS.forEach / PERIODS.forEach order
GridCells ==
    [k \in 1..(Len(DAYS) * Len(PERIODS)) |->
        [day |-> DAYS[((k - 1) \div Len(PERIODS)) + 1],
         period |-> PERIODS[((k - 1) % Len(PERIODS)) + 1]]]

IsOccupied(mode, entity, entries, day, period) ==
    \E i \in 1..Len(entries) :
        EntityMatches(mode, entity, entries[i]) /\ entries[i].day = day /\ entries[i].period = period

\* variant: the free cells whatever the progress of the subject
computeValidSlotsIgnoringProgress(subjectId, mode, entity, entries) ==
    IF subjectId = "" THEN << >>
    ELSE IF ~IsAvailableSubject(mode, entity, subjectId)
    THEN << >>
    ELSE SelectSeq(GridCells, LAMBDA c : ~IsOccupied(mode, entity, entries, c.day, c.period))

\* validSlots
computeValidSlots(subjectId, mode, entity, entries) ==
    IF subjectId = "" THEN << >>
    ELSE IF ~IsAvailableSubject(mode, entity, subjectId)
            \/ Percentage(mode, entity, subjectId, entries) >= 100
    THEN << >>
    ELSE SelectSeq(GridCells, LAMBDA c : ~IsOccupied(mode, entity, entries, c.day, c.period))

isSlotValid(subjectId, mode, entity, entries, day, period) ==
    \E c \in Range(computeValidSlots(subjectId, mode, entity, entries)) :
        c.day = day /\ c.period = period

----------------------------------------------------------------------------
(* TimetableGrid: validateConstraints *)

SameSlot(a, b) == a.day = b.day /\ a.period = b.period

\* variant: an entry counts as double booked when any other entry of the list shares its
\* teacher and slot, the first one included
IsTeacherDoubleBookedEitherWay(entries, i) ==
    \E j \in (1..Len(entries)) \ {i} :
        entries[j].teacherId = entries[i].teacherId /\ SameSlot(entries[j], entries[i])

\* entries whose teacher already occupies their slot earlier in the list
IsTeacherDoubleBooked(entries, i) ==
    \E j \in 1..(i - 1) :
        entries[j].teacherId = entries[i].teacherId /\ SameSlot(entries[j], entries[i])

TeacherDoubleBookings(entries) ==
    LET hit == SelectSeq(Indices(entries), LAMBDA i : IsTeacherDoubleBooked(entries, i))
    IN [k \in 1..Len(hit) |->
          [type |-> "teacher_double_booking", severity |-> "error",
           affectedEntries |-> << entries[hit[k]].id >>]]

EntryIdsOfTeacher(entries, teacherId) ==
    LET own == SelectSeq(entries, LAMBDA e : e.teacherId = teacherId)
    IN [k \in 1..Len(own) |-> own[k].id]

\* variant: hours >= teacher.weeklyHourLimit
ReachesWeeklyLimit(count, duration, weeklyHourLimit) ==
    count * duration >= weeklyHourLimit * 60

\* hours > teacher.weeklyHourLimit, hours the sum of periodDuration / 60 per entry
ExceedsWeeklyLimit(count, duration, weeklyHourLimit) ==
    count * duration > weeklyHourLimit * 60

\* teacherHours.forEach: one pass over the teachers in order of first appearance
TeacherOverloads(entries) ==
    LET first == SelectSeq(Indices(entries),
                    LAMBDA i : \A j \in 1..(i - 1) : entries[j].teacherId # entries[i].teacherId)
        over == SelectSeq(first,
                    LAMBDA i :
                        LET t == TeacherOf(entries[i].teacherId)
                        IN /\ t # 0
                           /\ ExceedsWeeklyLimit(
                                  Len(EntryIdsOfTeacher(entries, entries[i].teacherId)),
                                  periodDuration, teachers[t].weeklyHourLimit))
    IN [k \in 1..Len(over) |->
          [type |-> "teacher_overload", severity |-> "warning",
           affectedEntries |-> EntryIdsOfTeacher(entries, entries[over[k]].teacherId)]]

IsRoomClash(entries, i) ==
    /\ entries[i].roomId # ""
    /\ \E j \in 1..(i - 1) :
          entries[j].roomId = entries[i].roomId /\ SameSlot(entries[j], entries[i])

RoomClashes(entries) ==
    LET hit == SelectSeq(Indices(entries), LAMBDA i : IsRoomClash(entries, i))
    IN [k \in 1..Len(hit) |->
          [type |-> "room_clash", severity |-> "error",
           affectedEntries |-> << entries[hit[k]].id >>]]

validateConstraints(entries) ==
    TeacherDoubleBookings(entries) \o TeacherOverloads(entries) \o RoomClashes(entries)

----------------------------------------------------------------------------
(* TimetableGrid and ScheduleBuilderModal: the handlers *)

\* what the user picks in the bounded runs
EntityChoices == {"1", "5", "6"}
SubjectChoices == {"5", "7"}
CellChoices ==
    { [day |-> "Monday", period |-> 1], [day |-> "Monday", period |-> 2],
      [day |-> "Tuesday", period |-> 1] }

Op(name, error) == [op |-> name, error |-> error]

\* timeSlots.find((ts) => ts.day === day && ts.period === period)?.id || ""
TimeSlotId(day, period) ==
    IF \E ts \in timeSlots : ts.day = day /\ ts.period = period
    THEN (CHOOSE ts \in timeSlots : ts.day = day /\ ts.period = period).id
    ELSE 0

\* variant: a class without a row for the subject gets the first teacher of the subject
ResolveTeacherOrAnyTeacher(mode, entity, subjectId) ==
    IF mode = "class"
    THEN LET i == FirstIndex(assignments,
                    LAMBDA a : a.classId = entity /\ a.subjectId = subjectId /\ a.isActive)
             t == FirstIndex(teachers, LAMBDA x : subjectId \in x.subjects)
         IN IF i # 0 THEN assignments[i].teacherId
            ELSE IF t # 0 THEN teachers[t].id ELSE ""
    ELSE entity

\* assignments.find(classId, subjectId, isActive)?.teacherId || "" in class mode,
\* the selected entity itself in teacher mode
ResolveTeacher(mode, entity, subjectId) ==
    IF mode = "class"
    THEN LET i == FirstIndex(assignments,
                    LAMBDA a : a.classId = entity /\ a.subjectId = subjectId /\ a.isActive)
         IN IF i = 0 THEN "" ELSE assignments[i].teacherId
    ELSE entity

NewEntry(mode, entity, subjectId, teacherId, day, period, now) ==
    [id |-> now,
     classId |-> IF mode = "class" THEN entity ELSE "",
     teacherId |-> teacherId,
     subjectId |-> subjectId,
     roomId |-> "",
     timeSlotId |-> TimeSlotId(day, period),
     day |-> day,
     period |-> period]

\* the RoomAssignmentEngine is rendered while an entity is selected and entries exist
EngineMounted(entity, entries) == entity # "" /\ Len(entries) > 0

\* the engine's own state is lost when it unmounts; the grid keeps its copy
EngineAfter(entity, entries) ==
    IF EngineMounted(entity, entries)
    THEN UNCHANGED << roomAssignments, roomConflicts >>
    ELSE roomAssignments' = << >> /\ roomConflicts' = << >>

\* handleViewModeChange: the selected entity id is kept
handleViewModeChange(value) ==
    /\ ~showScheduleBuilder
    /\ value # viewMode
    /\ viewMode' = value
    /\ lastOp' = Op("select", "")
    /\ UNCHANGED << selectedEntity, selectedSubject, timetableEntries, conflicts,
                    showScheduleBuilder, modalSubject, clock >>
    /\ UNCHANGED engineVars
    /\ UNCHANGED adminVars

\* handleEntityChange: an id of the list shown for the current view mode
handleEntityChange(value) ==
    /\ ~showScheduleBuilder
    /\ value # selectedEntity
    /\ IF viewMode = "class" THEN ClassOf(value) # 0 ELSE TeacherOf(value) # 0
    /\ selectedEntity' = value
    /\ lastOp' = Op("select", "")
    /\ UNCHANGED << viewMode, selectedSubject, timetableEntries, conflicts,
                    showScheduleBuilder, modalSubject, clock >>
    /\ UNCHANGED << gridRoomAssignments, classrooms >>
    /\ EngineAfter(value, timetableEntries)
    /\ UNCHANGED adminVars

\* the subject buttons: toggle the selection; disabled when fully scheduled
selectSubject(subjectId) ==
    /\ ~showScheduleBuilder
    /\ IsAvailableSubject(viewMode, selectedEntity, subjectId)
    /\ Percentage(viewMode, selectedEntity, subjectId, timetableEntries) < 100
    /\ selectedSubject' = IF selectedSubject = subjectId THEN "" ELSE subjectId
    /\ lastOp' = Op("select", "")
    /\ UNCHANGED << viewMode, selectedEntity, timetableEntries, conflicts,
                    showScheduleBuilder, modalSubject, clock >>
    /\ UNCHANGED engineVars
    /\ UNCHANGED adminVars

\* the X button of the selection banner
clearSubject ==
    /\ ~showScheduleBuilder
    /\ selectedEntity # ""
    /\ selectedSubject # ""
    /\ selectedSubject' = ""
    /\ lastOp' = Op("select", "")
    /\ UNCHANGED << viewMode, selectedEntity, timetableEntries, conflicts,
                    showScheduleBuilder, modalSubject, clock >>
    /\ UNCHANGED engineVars
    /\ UNCHANGED adminVars

\* TimetableGrid.handleSlotClick, reached through the cell's onClick (isValid)
handleSlotClick(day, period, maxEntries) ==
    /\ ~showScheduleBuilder
    /\ selectedEntity # ""
    /\ selectedSubject # ""
    /\ isSlotValid(selectedSubject, viewMode, selectedEntity, timetableEntries, day, period)
    /\ LET fully == /\ IsAvailableSubject(viewMode, selectedEntity, selectedSubject)
                    /\ Percentage(viewMode, selectedEntity, selectedSubject,
                                  timetableEntries) >= 100
           teacherId == ResolveTeacher(viewMode, selectedEntity, selectedSubject)
       IN IF fully
          THEN /\ lastOp' = Op("addEntry", "FullyScheduled")
               /\ UNCHANGED << selectedSubject, timetableEntries, conflicts, clock >>
          ELSE IF teacherId = ""
          THEN /\ lastOp' = Op("addEntry", "NoTeacherAssigned")
               /\ UNCHANGED << selectedSubject, timetableEntries, conflicts, clock >>
          ELSE /\ Len(timetableEntries) < maxEntries
               /\ clock <= maxEntries
               /\ timetableEntries' = Append(timetableEntries,
                      NewEntry(viewMode, selectedEntity, selectedSubject, teacherId,
                               day, period, clock))
               /\ conflicts' = validateConstraints(timetableEntries')
               /\ selectedSubject' = ""
               /\ clock' = clock + 1
               /\ lastOp' = Op("addEntry", "")
    /\ UNCHANGED << viewMode, selectedEntity, showScheduleBuilder, modalSubject >>
    /\ UNCHANGED << gridRoomAssignments, classrooms >>
    /\ EngineAfter(selectedEntity, timetableEntries')
    /\ UNCHANGED adminVars

\* getEntryForSlot: the entry drawn in a cell for the selected entity
getEntryForSlot(mode, entity, entries, day, period) ==
    FirstIndex(entries,
        LAMBDA e : EntityMatches(mode, entity, e) /\ e.day = day /\ e.period = period)

\* variant: the entry is removed and the conflict list is left as it was
removeEntryKeepingConflicts(day, period) ==
    /\ ~showScheduleBuilder
    /\ selectedEntity # ""
    /\ getEntryForSlot(viewMode, selectedEntity, timetableEntries, day, period) # 0
    /\ LET entryId == timetableEntries[
                getEntryForSlot(viewMode, selectedEntity, timetableEntries, day, period)].id
       IN timetableEntries' = SelectSeq(timetableEntries, LAMBDA e : e.id # entryId)
    /\ lastOp' = Op("removeEntry", "")
    /\ UNCHANGED << viewMode, selectedEntity, selectedSubject, showScheduleBuilder,
                    modalSubject, clock, conflicts >>
    /\ UNCHANGED << gridRoomAssignments, classrooms >>
    /\ EngineAfter(selectedEntity, timetableEntries')
    /\ UNCHANGED adminVars

\* TimetableGrid.removeEntry, reached by clicking the entry drawn in a cell
removeEntry(day, period) ==
    /\ ~showScheduleBuilder
    /\ selectedEntity # ""
    /\ getEntryForSlot(viewMode, selectedEntity, timetableEntries, day, period) # 0
    /\ LET entryId == timetableEntries[
                getEntryForSlot(viewMode, selectedEntity, timetableEntries, day, period)].id
       IN timetableEntries' = SelectSeq(timetableEntries, LAMBDA e : e.id # entryId)
    /\ conflicts' = validateConstraints(timetableEntries')
    /\ lastOp' = Op("removeEntry", "")
    /\ UNCHANGED << viewMode, selectedEntity, selectedSubject, showScheduleBuilder,
                    modalSubject, clock >>
    /\ UNCHANGED << gridRoomAssignments, classrooms >>
    /\ EngineAfter(selectedEntity, timetableEntries')
    /\ UNCHANGED adminVars

\* the Schedule Builder button (disabled without a selected entity) and the dialog's close
setShowScheduleBuilder(open) ==
    /\ open # showScheduleBuilder
    /\ open => selectedEntity # ""
    /\ showScheduleBuilder' = open
    /\ lastOp' = Op("select", "")
    /\ UNCHANGED << viewMode, selectedEntity, selectedSubject, timetableEntries, conflicts,
                    modalSubject, clock >>
    /\ UNCHANGED engineVars
    /\ UNCHANGED adminVars

\* ScheduleBuilderModal: its subject buttons
modalSelectSubject(subjectId) ==
    /\ showScheduleBuilder
    /\ IsAvailableSubject(viewMode, selectedEntity, subjectId)
    /\ Percentage(viewMode, selectedEntity, subjectId, timetableEntries) < 100
    /\ modalSubject' = IF modalSubject = subjectId THEN "" ELSE subjectId
    /\ lastOp' = Op("select", "")
    /\ UNCHANGED << viewMode, selectedEntity, selectedSubject, timetableEntries, conflicts,
                    showScheduleBuilder, clock >>
    /\ UNCHANGED engineVars
    /\ UNCHANGED adminVars

\* ScheduleBuilderModal.handleSlotClick, then TimetableGrid.handleAddEntry
modalHandleSlotClick(day, period, maxEntries) ==
    /\ showScheduleBuilder
    /\ selectedEntity # ""
    /\ modalSubject # ""
    /\ isSlotValid(modalSubject, viewMode, selectedEntity, timetableEntries, day, period)
    /\ LET teacherId == ResolveTeacher(viewMode, selectedEntity, modalSubject)
       IN IF teacherId = ""
          THEN /\ lastOp' = Op("addEntry", "NoTeacherAssigned")
               /\ UNCHANGED << modalSubject, timetableEntries, conflicts, clock >>
          ELSE /\ Len(timetableEntries) < maxEntries
               /\ clock <= maxEntries
               /\ timetableEntries' = Append(timetableEntries,
                      NewEntry(viewMode, selectedEntity, modalSubject, teacherId,
                               day, period, clock))
               /\ conflicts' = validateConstraints(timetableEntries')
               /\ modalSubject' = ""
               /\ clock' = clock + 1
               /\ lastOp' = Op("addEntry", "")
    /\ UNCHANGED << viewMode, selectedEntity, selectedSubject, showScheduleBuilder >>
    /\ UNCHANGED << gridRoomAssignments, classrooms >>
    /\ EngineAfter(selectedEntity, timetableEntries')
    /\ UNCHANGED adminVars

\* the modal's entry click, then TimetableGrid.handleRemoveEntryFromModal
handleRemoveEntryFromModal(day, period) ==
    /\ showScheduleBuilder
    /\ getEntryForSlot(viewMode, selectedEntity, timetableEntries, day, period) # 0
    /\ LET entryId == timetableEntries[
                getEntryForSlot(viewMode, selectedEntity, timetableEntries, day, period)].id
       IN timetableEntries' = SelectSeq(timetableEntries, LAMBDA e : e.id # entryId)
    /\ conflicts' = validateConstraints(timetableEntries')
    /\ lastOp' = Op("removeEntry", "")
    /\ UNCHANGED << viewMode, selectedEntity, selectedSubject, showScheduleBuilder,
                    modalSubject, clock >>
    /\ UNCHANGED << gridRoomAssignments, classrooms >>
    /\ EngineAfter(selectedEntity, timetableEntries')
    /\ UNCHANGED adminVars

----------------------------------------------------------------------------
(* RoomAssignmentEngine: suitability scoring *)

requiredFeatures == {"Projector", "Whiteboard"}

\* subjectRoomTypes.filter(subjectId).sort(by priority).find(roomTypeId): the row of the
\* subject for this room type with the smallest priority, the earliest among equals; 0 if none
RoomTypePreference(subjectId, roomTypeId) ==
    LET rows == SelectSeq(Indices(subjectRoomTypes),
                    LAMBDA i : /\ subjectRoomTypes[i].subjectId = subjectId
                               /\ subjectRoomTypes[i].roomTypeId = roomTypeId)
    IN IF rows = << >> THEN 0
       ELSE rows[FirstIndex(rows,
                LAMBDA i : \A k \in 1..Len(rows) :
                    subjectRoomTypes[i].priority <= subjectRoomTypes[rows[k]].priority)]

HasPreferences(subjectId) ==
    \E i \in 1..Len(subjectRoomTypes) : subjectRoomTypes[i].subjectId = subjectId

\* room type rule: (4 - priority) * 30, +20 when required; -20 for a non-preferred type
\* variant: a matching room type earns a flat 30, whatever its priority or requirement
RoomTypeScoreFlatMatch(room, subjectId) ==
    LET i == RoomTypePreference(subjectId, room.roomTypeId)
    IN IF i # 0
       THEN 30
       ELSE IF HasPreferences(subjectId) THEN 0 - 20 ELSE 0

RoomTypeScore(room, subjectId) ==
    LET i == RoomTypePreference(subjectId, room.roomTypeId)
    IN IF i # 0
       THEN (4 - subjectRoomTypes[i].priority) * 30
            + (IF subjectRoomTypes[i].isRequired THEN 20 ELSE 0)
       ELSE IF HasPreferences(subjectId) THEN 0 - 20 ELSE 0

\* variant: a room that is too small loses 40 points
CapacityScoreMildPenalty(capacity, studentCount) ==
    IF capacity >= studentCount
    THEN IF 10 * studentCount > 8 * capacity THEN 15
         ELSE IF 10 * studentCount > 5 * capacity THEN 10
         ELSE 5
    ELSE 0 - 40

\* capacity rule: studentCount / capacity > 0.8 -> 15, > 0.5 -> 10, else 5; -50 when too small
CapacityScore(capacity, studentCount) ==
    IF capacity >= studentCount
    THEN IF 10 * studentCount > 8 * capacity THEN 15
         ELSE IF 10 * studentCount > 5 * capacity THEN 10
         ELSE 5
    ELSE 0 - 50

FeatureScore(room) == IF requiredFeatures \subseteq room.features THEN 10 ELSE 0

RawScore(room, subjectId, studentCount) ==
    RoomTypeScore(room, subjectId) + CapacityScore(room.capacity, studentCount)
        + FeatureScore(room)

\* suitabilityScore: Math.max(0, score)
suitabilityScore(room, subjectId, studentCount) ==
    Max0(RawScore(room, subjectId, studentCount))

Reasons(room, subjectId, studentCount) ==
    LET i == RoomTypePreference(subjectId, room.roomTypeId)
    IN (IF i # 0
        THEN << IF subjectRoomTypes[i].priority = 1 THEN "Preferred room type"
                ELSE "Suitable room type" >>
             \o (IF subjectRoomTypes[i].isRequired THEN << "Required room type" >> ELSE << >>)
        ELSE << >>)
       \o (IF room.capacity >= studentCount /\ 10 * studentCount > 8 * room.capacity
           THEN << "Good capacity utilization" >>
           ELSE IF room.capacity >= studentCount /\ 10 * studentCount > 5 * room.capacity
           THEN << "Adequate capacity" >>
           ELSE << >>)
       \o (IF requiredFeatures \subseteq room.features
           THEN << "Has required features" >> ELSE << >>)

Warnings(room, subjectId, studentCount) ==
    (IF RoomTypePreference(subjectId, room.roomTypeId) = 0 /\ HasPreferences(subjectId)
     THEN << "Not a preferred room type for this subject" >> ELSE << >>)
    \o (IF room.capacity < studentCount THEN << "Insufficient capacity" >>
        ELSE IF 10 * studentCount > 5 * room.capacity THEN << >>
        ELSE << "Room may be too large" >>)
    \o (IF requiredFeatures \subseteq room.features
        THEN << >> ELSE << "Missing some required features" >>)

Suggestion(room, subjectId, studentCount) ==
    [roomId |-> room.id,
     suitabilityScore |-> suitabilityScore(room, subjectId, studentCount),
     reasons |-> Reasons(room, subjectId, studentCount),
     warnings |-> Warnings(room, subjectId, studentCount)]

\* timetableEntries.find((te) => te.id === id): index of the entry, 0 when it is gone
EntryById(entries, id) == FirstIndex(entries, LAMBDA e : e.id = id)

\* room ids of the assignments whose entry lies at the (day, period) of the given entry
occupiedRooms(entry, assigned, entries) ==
    LET at == SelectSeq(assigned,
                  LAMBDA ra :
                      LET i == EntryById(entries, ra.timetableEntryId)
                      IN i # 0 /\ SameSlot(entries[i], entry))
    IN { at[k].roomId : k \in 1..Len(at) }

\* variant: a sort that puts the later of two equal scores first
RECURSIVE SortByScoreLaterFirst(_)
SortByScoreLaterFirst(s) ==
    IF s = << >> THEN << >>
    ELSE LET i == CHOOSE k \in 1..Len(s) :
                      /\ \A j \in 1..Len(s) : s[k].suitabilityScore >= s[j].suitabilityScore
                      /\ \A j \in (k + 1)..Len(s) :
                            s[j].suitabilityScore < s[k].suitabilityScore
         IN << s[i] >> \o SortByScoreLaterFirst(SubSeq(s, 1, i - 1) \o SubSeq(s, i + 1, Len(s)))

\* suggestions.sort((a, b) => b.suitabilityScore - a.suitabilityScore), a stable sort
RECURSIVE SortByScore(_)
SortByScore(s) ==
    IF s = << >> THEN << >>
    ELSE LET i == FirstIndex(Indices(s),
                     LAMBDA k : \A j \in 1..Len(s) :
                         s[k].suitabilityScore >= s[j].suitabilityScore)
         IN << s[i] >> \o SortByScore(SubSeq(s, 1, i - 1) \o SubSeq(s, i + 1, Len(s)))

generateRoomSuggestions(entry, rooms, assigned, entries) ==
    IF (\A k \in 1..Len(subjects) : subjects[k] # entry.subjectId) \/ ClassOf(entry.classId) = 0
    THEN << >>
    ELSE LET occupied == occupiedRooms(entry, assigned, entries)
             availableRooms == SelectSeq(rooms, LAMBDA r : r.isActive /\ r.id \notin occupied)
             studentCount == classSections[ClassOf(entry.classId)].studentCount
         IN SortByScore([k \in 1..Len(availableRooms) |->
                Suggestion(availableRooms[k], entry.subjectId, studentCount)])

----------------------------------------------------------------------------
(* RoomAssignmentEngine: auto-assignment, manual assignment, conflict detection *)

HasAssignment(assigned, entryId) ==
    \E k \in 1..Len(assigned) : assigned[k].timetableEntryId = entryId

\* variant: the best suggestion is taken whatever its score
AutoAssignableAtAnyScore(entry, rooms, assigned, entries) ==
    /\ ~HasAssignment(assigned, entry.id)
    /\ generateRoomSuggestions(entry, rooms, assigned, entries) # << >>

\* the entries autoAssignRooms gives a room: not yet assigned, best suggestion scoring > 0;
\* every entry is scored against the assignments held before the call
AutoAssignable(entry, rooms, assigned, entries) ==
    /\ ~HasAssignment(assigned, entry.id)
    /\ LET suggestions == generateRoomSuggestions(entry, rooms, assigned, entries)
       IN suggestions # << >> /\ suggestions[1].suitabilityScore > 0

AutoAssignment(entry, rooms, assigned, entries) ==
    LET best == generateRoomSuggestions(entry, rooms, assigned, entries)[1]
    IN [id |-> << "auto", entry.id >>,
        timetableEntryId |-> entry.id,
        roomId |-> best.roomId,
        isAutoAssigned |-> TRUE,
        assignedBy |-> "system",
        conflictStatus |-> IF Len(best.warnings) > 0 THEN "warning" ELSE "none"]

\* updatedAssignments of autoAssignRooms
autoAssignRooms(rooms, assigned, entries) ==
    LET todo == SelectSeq(entries, LAMBDA e : AutoAssignable(e, rooms, assigned, entries))
    IN assigned \o [k \in 1..Len(todo) |-> AutoAssignment(todo[k], rooms, assigned, entries)]

\* the assignments that still have an entry, each with its conflictMap key
Keyed(assigned, entries) ==
    LET live == SelectSeq(assigned, LAMBDA ra : EntryById(entries, ra.timetableEntryId) # 0)
    IN [k \in 1..Len(live) |->
          LET e == entries[EntryById(entries, live[k].timetableEntryId)]
          IN [roomId |-> live[k].roomId, day |-> e.day, period |-> e.period,
              timetableEntryId |-> live[k].timetableEntryId]]

SameKey(a, b) == a.roomId = b.roomId /\ a.day = b.day /\ a.period = b.period

\* variant: a RoomConflict for every conflictMap key, whatever the number of its entry ids
detectConflictsForEveryKey(assigned, entries) ==
    LET keyed == Keyed(assigned, entries)
        group(i) == SelectSeq(keyed, LAMBDA x : SameKey(x, keyed[i]))
        firsts == SelectSeq(Indices(keyed),
                      LAMBDA i : \A j \in 1..(i - 1) : ~SameKey(keyed[j], keyed[i]))
    IN [k \in 1..Len(firsts) |->
          LET g == group(firsts[k])
          IN [roomId |-> keyed[firsts[k]].roomId,
              timeSlotId |-> << keyed[firsts[k]].day, keyed[firsts[k]].period >>,
              conflictingEntries |-> [n \in 1..Len(g) |-> g[n].timetableEntryId],
              severity |-> "error"]]

\* detectConflicts: one RoomConflict per conflictMap key holding more than one entry id,
\* in order of the key's first appearance
detectConflicts(assigned, entries) ==
    LET keyed == Keyed(assigned, entries)
        group(i) == SelectSeq(keyed, LAMBDA x : SameKey(x, keyed[i]))
        firsts == SelectSeq(Indices(keyed),
                      LAMBDA i : /\ \A j \in 1..(i - 1) : ~SameKey(keyed[j], keyed[i])
                                 /\ Len(group(i)) > 1)
    IN [k \in 1..Len(firsts) |->
          LET g == group(firsts[k])
          IN [roomId |-> keyed[firsts[k]].roomId,
              timeSlotId |-> << keyed[firsts[k]].day, keyed[firsts[k]].period >>,
              conflictingEntries |-> [n \in 1..Len(g) |-> g[n].timetableEntryId],
              severity |-> "error"]]

\* conflictingAssignment of saveManualAssignment: any assignment on that room and slot
conflictingAssignment(entry, roomId, assigned, entries) ==
    \E k \in 1..Len(assigned) :
        LET i == EntryById(entries, assigned[k].timetableEntryId)
        IN i # 0 /\ assigned[k].roomId = roomId /\ SameSlot(entries[i], entry)

ManualAssignment(entry, roomId) ==
    [id |-> << "manual", entry.id >>,
     timetableEntryId |-> entry.id,
     roomId |-> roomId,
     isAutoAssigned |-> FALSE,
     assignedBy |-> "user",
     conflictStatus |-> "none"]

\* the Auto-Assign Rooms button
handleAutoAssignRooms ==
    /\ ~showScheduleBuilder
    /\ EngineMounted(selectedEntity, timetableEntries)
    /\ roomAssignments' = autoAssignRooms(classrooms, roomAssignments, timetableEntries)
    /\ gridRoomAssignments' = roomAssignments'
    /\ roomConflicts' = detectConflicts(roomAssignments', timetableEntries)
    /\ lastOp' = Op("autoAssignRooms", "")
    /\ UNCHANGED << timetableEntries, conflicts, classrooms, clock >>
    /\ UNCHANGED gridVars
    /\ UNCHANGED adminVars

\* variant: the new assignment is added and the previous one of the entry is kept
saveManualAssignmentKeepingPrevious(selectedEntry, manualRoomSelection) ==
    /\ ~showScheduleBuilder
    /\ EngineMounted(selectedEntity, timetableEntries)
    /\ IF conflictingAssignment(selectedEntry, manualRoomSelection,
                                roomAssignments, timetableEntries)
       THEN /\ lastOp' = [op |-> "assignRoomManually", error |-> "RoomOccupied",
                          entry |-> selectedEntry.id, room |-> manualRoomSelection]
            /\ UNCHANGED << gridRoomAssignments, roomAssignments, roomConflicts >>
       ELSE /\ roomAssignments' =
                   Append(roomAssignments, ManualAssignment(selectedEntry, manualRoomSelection))
            /\ gridRoomAssignments' = roomAssignments'
            /\ roomConflicts' = detectConflicts(roomAssignments', timetableEntries)
            /\ lastOp' = [op |-> "assignRoomManually", error |-> "",
                          entry |-> selectedEntry.id, room |-> manualRoomSelection]
    /\ UNCHANGED << timetableEntries, conflicts, classrooms, clock >>
    /\ UNCHANGED gridVars
    /\ UNCHANGED adminVars

\* openManualAssignment(entry), a room selection, then saveManualAssignment
saveManualAssignment(selectedEntry, manualRoomSelection) ==
    /\ ~showScheduleBuilder
    /\ EngineMounted(selectedEntity, timetableEntries)
    /\ IF conflictingAssignment(selectedEntry, manualRoomSelection,
                                roomAssignments, timetableEntries)
       THEN /\ lastOp' = [op |-> "assignRoomManually", error |-> "RoomOccupied",
                          entry |-> selectedEntry.id, room |-> manualRoomSelection]
            /\ UNCHANGED << gridRoomAssignments, roomAssignments, roomConflicts >>
       ELSE /\ roomAssignments' =
                   Append(SelectSeq(roomAssignments,
                                    LAMBDA ra : ra.timetableEntryId # selectedEntry.id),
                          ManualAssignment(selectedEntry, manualRoomSelection))
            /\ gridRoomAssignments' = roomAssignments'
            /\ roomConflicts' = detectConflicts(roomAssignments', timetableEntries)
            /\ lastOp' = [op |-> "assignRoomManually", error |-> "",
                          entry |-> selectedEntry.id, room |-> manualRoomSelection]
    /\ UNCHANGED << timetableEntries, conflicts, classrooms, clock >>
    /\ UNCHANGED gridVars
    /\ UNCHANGED adminVars

\* openManualAssignment(entry): the dialog lists generateRoomSuggestions(selectedEntry)
openManualAssignment(entry) ==
    /\ ~showScheduleBuilder
    /\ EngineMounted(selectedEntity, timetableEntries)
    /\ lastOp' = [op |-> "openManualAssignment", error |-> "", entry |-> entry.id]
    /\ UNCHANGED << timetableEntries, conflicts, clock >>
    /\ UNCHANGED gridVars
    /\ UNCHANGED engineVars
    /\ UNCHANGED adminVars

----------------------------------------------------------------------------
(* RoomAssignmentEngine: room utilization *)

\* const totalSlots = 5 * 8 // 5 days * 8 periods
totalSlots == 5 * 8

\* roomAssignmentsForRoom.length
occupiedSlots(room, assigned) ==
    Len(SelectSeq(assigned, LAMBDA ra : ra.roomId = room.id))

\* Math.round((occupiedSlots / totalSlots) * 100)
utilizationPercentage(room, assigned) ==
    (2 * 100 * occupiedSlots(room, assigned) + totalSlots) \div (2 * totalSlots)

----------------------------------------------------------------------------
(* Publishing (the Publish button of the grid, handlePublishTimetable of the page) *)

\* variant: the button is disabled by any conflict, warnings included
PublishDisabledByAnyConflict(found) == found # << >>

\* disabled={conflicts.some((c) => c.severity === "error")}
PublishDisabled(found) == \E c \in Range(found) : c.severity = "error"

\* onClick={() => onPublish(timetableEntries)} with onPublish = handlePublishTimetable
handlePublish ==
    /\ ~showScheduleBuilder
    /\ ~PublishDisabled(conflicts)
    /\ publishedEntries' = timetableEntries
    /\ isPublished' = TRUE
    /\ lastOp' = Op("publish", "")
    /\ UNCHANGED builderVars
    /\ UNCHANGED << managerVars, setupVars, clock >>

----------------------------------------------------------------------------
(* The teacher assignment manager (TeacherAssignmentManager) *)

\* rows the assignment table may grow to
MaxAssignmentRows == 10

\* Date.now().toString(): later than every literal id of the default data
NewId(now) == ToString(1000 + now)

\* the options of the subject select: subjects allocated to the class's grade
\* that have no active assignment for the class yet
getAvailableSubjects(rows, class) ==
    IF class = "" \/ ClassOf(class) = 0
    THEN {}
    ELSE LET gradeId == classSections[ClassOf(class)].gradeId
             gradeSubjects == { s \in Range(subjects) :
                                  \E a \in Range(allocations) :
                                      a.gradeId = gradeId /\ a.subjectId = s }
             alreadyAssignedSubjects == { a.subjectId : a \in { r \in Range(rows) :
                                              r.classId = class /\ r.isActive } }
         IN  gradeSubjects \ alreadyAssignedSubjects

\* the options of the teacher select: teachers qualified for the selected subject
getQualifiedTeachers(subject) ==
    IF subject = ""
    THEN {}
    ELSE { t.id : t \in { x \in Range(teachers) : subject \in x.subjects } }

\* assignments.find(a => a.classId === selectedClass && a.subjectId === selectedSubject && a.isActive)
existingAssignment(rows, class, subject) ==
    FirstIndex(rows, LAMBDA a : a.classId = class /\ a.subjectId = subject /\ a.isActive)

\* the three selects keep their value until addAssignment clears it
setSelectedClass(class) ==
    /\ selectedClass' = class
    /\ lastOp' = Op("setSelectedClass", "")
    /\ UNCHANGED << teacherAssignments, managerSubject, selectedTeacher, clock,
                    assignmentConflicts >>
    /\ UNCHANGED builderVars
    /\ UNCHANGED pageVars
    /\ UNCHANGED setupVars

setSelectedSubject(subject) ==
    /\ selectedClass # ""
    /\ subject \in getAvailableSubjects(teacherAssignments, selectedClass)
    /\ managerSubject' = subject
    /\ lastOp' = Op("setSelectedSubject", "")
    /\ UNCHANGED << teacherAssignments, selectedClass, selectedTeacher, clock,
                    assignmentConflicts >>
    /\ UNCHANGED builderVars
    /\ UNCHANGED pageVars
    /\ UNCHANGED setupVars

setSelectedTeacher(teacher) ==
    /\ managerSubject # ""
    /\ teacher \in getQualifiedTeachers(managerSubject)
    /\ selectedTeacher' = teacher
    /\ lastOp' = Op("setSelectedTeacher", "")
    /\ UNCHANGED << teacherAssignments, selectedClass, managerSubject, clock,
                    assignmentConflicts >>
    /\ UNCHANGED builderVars
    /\ UNCHANGED pageVars
    /\ UNCHANGED setupVars

\* the weekly hours one assignment adds to its teacher's workload: those of the allocation
\* of the class's grade and the subject, nothing when the class or the allocation is missing
AssignmentHours(a) ==
    IF ClassOf(a.classId) = 0
    THEN 0
    ELSE LET gradeId == classSections[ClassOf(a.classId)].gradeId
             i == FirstIndex(allocations,
                      LAMBDA x : x.gradeId = gradeId /\ x.subjectId = a.subjectId)
         IN IF i = 0 THEN 0 ELSE allocations[i].weeklyHours

\* totalWeeklyHours of teacherWorkloads: over the teacher's active assignments
RECURSIVE totalWeeklyHours(_, _)
totalWeeklyHours(rows, teacherId) ==
    IF rows = << >>
    THEN 0
    ELSE (IF Head(rows).teacherId = teacherId /\ Head(rows).isActive
          THEN AssignmentHours(Head(rows)) ELSE 0)
         + totalWeeklyHours(Tail(rows), teacherId)

\* Math.round((totalWeeklyHours / teacher.weeklyHourLimit) * 100)
WorkloadPercentage(hours, limit) == (2 * 100 * hours + limit) \div (2 * limit)

\* teacherWorkloads, the memo over the assignments state: one workload per teacher
teacherWorkloads(rows) ==
    [t \in 1..Len(teachers) |->
        LET hours == totalWeeklyHours(rows, teachers[t].id)
        IN [teacherId |-> teachers[t].id,
            totalWeeklyHours |-> hours,
            weeklyHourLimit |-> teachers[t].weeklyHourLimit,
            utilizationPercentage |-> WorkloadPercentage(hours, teachers[t].weeklyHourLimit)]]

\* validateAssignments(currentAssignments) with the teacherWorkloads its closure holds,
\* those of the rows the memo was computed from: a teacher_subject_mismatch error per
\* assignment of an unqualified teacher, then a teacher_overcommitted warning per workload
\* above 100 percent
validateAssignments(currentAssignments, memoRows) ==
    LET mismatched == SelectSeq(currentAssignments,
                          LAMBDA a : /\ TeacherOf(a.teacherId) # 0
                                     /\ a.subjectId \notin teachers[TeacherOf(a.teacherId)].subjects)
        workloads == teacherWorkloads(memoRows)
        over == SelectSeq(workloads, LAMBDA w : w.utilizationPercentage > 100)
        idsOf(teacherId) ==
            LET mine == SelectSeq(currentAssignments, LAMBDA a : a.teacherId = teacherId)
            IN [k \in 1..Len(mine) |-> mine[k].id]
    IN [k \in 1..Len(mismatched) |->
           [type |-> "teacher_subject_mismatch", severity |-> "error",
            teacherId |-> mismatched[k].teacherId, subjectId |-> mismatched[k].subjectId,
            totalWeeklyHours |-> 0, utilizationPercentage |-> 0,
            affectedAssignments |-> << mismatched[k].id >>]]
       \o
       [k \in 1..Len(over) |->
           [type |-> "teacher_overcommitted", severity |-> "warning",
            teacherId |-> over[k].teacherId, subjectId |-> "",
            totalWeeklyHours |-> over[k].totalWeeklyHours,
            utilizationPercentage |-> over[k].utilizationPercentage,
            affectedAssignments |-> idsOf(over[k].teacherId)]]

\* addAssignment with the update branch replaced by the append branch
addAssignmentAlwaysAppending(maxRows) ==
    /\ IF selectedClass = "" \/ managerSubject = "" \/ selectedTeacher = ""
       THEN /\ lastOp' = Op("addAssignment", "Please select class, subject, and teacher")
            /\ UNCHANGED << managerVars, clock >>
       ELSE /\ Len(teacherAssignments) < maxRows
            /\ teacherAssignments' = Append(teacherAssignments,
                   [id |-> NewId(clock), classId |-> selectedClass,
                    subjectId |-> managerSubject, teacherId |-> selectedTeacher,
                    isActive |-> TRUE])
            /\ assignmentConflicts' =
                   validateAssignments(teacherAssignments', teacherAssignments)
            /\ clock' = clock + 1
            /\ selectedClass' = ""
            /\ managerSubject' = ""
            /\ selectedTeacher' = ""
            /\ lastOp' = Op("addAssignment", "")
    /\ UNCHANGED builderVars
    /\ UNCHANGED pageVars
    /\ UNCHANGED setupVars

addAssignment(maxRows) ==
    /\ IF selectedClass = "" \/ managerSubject = "" \/ selectedTeacher = ""
       THEN /\ lastOp' = Op("addAssignment", "Please select class, subject, and teacher")
            /\ UNCHANGED << managerVars, clock >>
       ELSE LET existing == existingAssignment(teacherAssignments, selectedClass,
                                               managerSubject)
            IN  /\ IF existing # 0
                   THEN /\ teacherAssignments' =
                              [i \in 1..Len(teacherAssignments) |->
                                  IF teacherAssignments[i].id = teacherAssignments[existing].id
                                  THEN [teacherAssignments[i] EXCEPT
                                            !.teacherId = selectedTeacher]
                                  ELSE teacherAssignments[i]]
                        /\ UNCHANGED clock
                   ELSE /\ Len(teacherAssignments) < maxRows
                        /\ teacherAssignments' = Append(teacherAssignments,
                               [id |-> NewId(clock), classId |-> selectedClass,
                                subjectId |-> managerSubject,
                                teacherId |-> selectedTeacher, isActive |-> TRUE])
                        /\ clock' = clock + 1
                /\ assignmentConflicts' =
                       validateAssignments(teacherAssignments', teacherAssignments)
                /\ selectedClass' = ""
                /\ managerSubject' = ""
                /\ selectedTeacher' = ""
                /\ lastOp' = Op("addAssignment", "")
    /\ UNCHANGED builderVars
    /\ UNCHANGED pageVars
    /\ UNCHANGED setupVars

\* the trash button of a listed (active) row
removeAssignment(assignmentId) ==
    /\ \E a \in Range(teacherAssignments) : a.id = assignmentId /\ a.isActive
    /\ teacherAssignments' =
           [i \in 1..Len(teacherAssignments) |->
               IF teacherAssignments[i].id = assignmentId
               THEN [teacherAssignments[i] EXCEPT !.isActive = FALSE]
               ELSE teacherAssignments[i]]
    /\ assignmentConflicts' = validateAssignments(teacherAssignments', teacherAssignments)
    /\ lastOp' = [op |-> "removeAssignment", error |-> "", id |-> assignmentId]
    /\ UNCHANGED << selectedClass, managerSubject, selectedTeacher, clock >>
    /\ UNCHANGED builderVars
    /\ UNCHANGED pageVars
    /\ UNCHANGED setupVars

----------------------------------------------------------------------------
(* The subject setup form (SubjectSetup) *)

\* rows the allocation table may grow to
MaxAllocationRows == 17

\* JavaScript numbers, as far as the form produces them: an integer or NaN
NaN == [nan |-> TRUE, val |-> 0]
Number(n) == [nan |-> FALSE, val |-> n]

\* a * b
Times(a, b) == IF a.nan \/ b.nan THEN NaN ELSE Number(a.val * b.val)

\* the text of a number input is a string of characters
DigitValue(c) ==
    CASE c = "0" -> 0 [] c = "1" -> 1 [] c = "2" -> 2 [] c = "3" -> 3 [] c = "4" -> 4
      [] c = "5" -> 5 [] c = "6" -> 6 [] c = "7" -> 7 [] c = "8" -> 8 [] c = "9" -> 9
      [] OTHER -> -1

RECURSIVE LeadingDigits(_)
LeadingDigits(text) ==
    IF text = << >> \/ DigitValue(Head(text)) < 0
    THEN << >>
    ELSE << Head(text) >> \o LeadingDigits(Tail(text))

RECURSIVE DecimalValue(_)
DecimalValue(digits) ==
    IF digits = << >>
    THEN 0
    ELSE 10 * DecimalValue(SubSeq(digits, 1, Len(digits) - 1))
            + DigitValue(digits[Len(digits)])

\* Number.parseInt on an unsigned text: the leading digits, NaN when there are none
parseInt(text) ==
    IF LeadingDigits(text) = << >> THEN NaN ELSE Number(DecimalValue(LeadingDigits(text)))

\* defaultGradeSubjectAllocations, every row with semesterWeeks 18
defaultGradeSubjectAllocations ==
    [i \in 1..Len(allocations) |->
        [id |-> ToString(i), gradeId |-> allocations[i].gradeId,
         subjectId |-> allocations[i].subjectId,
         weeklyHours |-> Number(allocations[i].weeklyHours),
         semesterWeeks |-> Number(18),
         totalHours |-> Number(allocations[i].weeklyHours * 18)]]

\* the grades, subjects and texts tried in the form
GradeChoices == { "all", "9", "11" }
AddSubjectChoices == { "1", "2" }
InputTexts == { << >>, << "2" >>, << "1", "0" >>, << "3", ".", "5" >> }
FieldChoices == { "weeklyHours", "semesterWeeks" }

\* filteredAllocations: the rows the table lists
IsListed(row) == selectedGrade = "all" \/ row.gradeId = selectedGrade

\* the rows whose edit button is tried: the first default row and the added ones
EditChoices ==
    { gradeAllocations[i].id : i \in { j \in 1..Len(gradeAllocations) :
                                          j = 1 \/ j > Len(allocations) } }

setSelectedGrade(grade) ==
    /\ selectedGrade' = grade
    /\ lastOp' = Op("setSelectedGrade", "")
    /\ UNCHANGED << gradeAllocations, selectedSubjectForAdd, editingAllocation, clock >>
    /\ UNCHANGED builderVars
    /\ UNCHANGED pageVars
    /\ UNCHANGED managerVars

setSelectedSubjectForAdd(subject) ==
    /\ selectedSubjectForAdd' = subject
    /\ lastOp' = Op("setSelectedSubjectForAdd", "")
    /\ UNCHANGED << gradeAllocations, selectedGrade, editingAllocation, clock >>
    /\ UNCHANGED builderVars
    /\ UNCHANGED pageVars
    /\ UNCHANGED managerVars

\* the edit button of a listed row: setEditingAllocation(isEditing ? null : allocation.id)
setEditingAllocation(id) ==
    /\ \E row \in Range(gradeAllocations) : row.id = id /\ IsListed(row)
    /\ editingAllocation' = IF editingAllocation = id THEN "" ELSE id
    /\ lastOp' = Op("setEditingAllocation", "")
    /\ UNCHANGED << gradeAllocations, selectedGrade, selectedSubjectForAdd, clock >>
    /\ UNCHANGED builderVars
    /\ UNCHANGED pageVars
    /\ UNCHANGED managerVars

\* { ...allocation, [field]: value } and the recomputed total
Updated(row, field, value) ==
    LET updated == IF field = "weeklyHours"
                   THEN [row EXCEPT !.weeklyHours = value]
                   ELSE [row EXCEPT !.semesterWeeks = value]
    IN  [updated EXCEPT !.totalHours = Times(updated.weeklyHours, updated.semesterWeeks)]

\* onChange of the weeklyHours / semesterWeeks input of the listed row being edited
handleAllocationChange(id, field, text) ==
    /\ editingAllocation = id
    /\ \E row \in Range(gradeAllocations) : row.id = id /\ IsListed(row)
    /\ gradeAllocations' =
           [i \in 1..Len(gradeAllocations) |->
               IF gradeAllocations[i].id = id
               THEN Updated(gradeAllocations[i], field, parseInt(text))
               ELSE gradeAllocations[i]]
    /\ lastOp' = [op |-> "handleAllocationChange", error |-> "", id |-> id, text |-> text]
    /\ UNCHANGED << selectedGrade, selectedSubjectForAdd, editingAllocation, clock >>
    /\ UNCHANGED builderVars
    /\ UNCHANGED pageVars
    /\ UNCHANGED managerVars

\* allocations.find(a => a.gradeId === selectedGrade && a.subjectId === selectedSubjectForAdd)
existingAllocation(rows, grade, subject) ==
    FirstIndex(rows, LAMBDA a : a.gradeId = grade /\ a.subjectId = subject)

addNewAllocation ==
    /\ IF selectedGrade = "all" \/ selectedSubjectForAdd = ""
       THEN /\ lastOp' = Op("addNewAllocation", "ignored")
            /\ UNCHANGED << setupVars, clock >>
       ELSE IF existingAllocation(gradeAllocations, selectedGrade, selectedSubjectForAdd) # 0
       THEN /\ lastOp' = Op("addNewAllocation",
                            "This subject is already allocated for this grade.")
            /\ UNCHANGED << setupVars, clock >>
       ELSE /\ Len(gradeAllocations) < MaxAllocationRows
            /\ gradeAllocations' = Append(gradeAllocations,
                   [id |-> NewId(clock), gradeId |-> selectedGrade,
                    subjectId |-> selectedSubjectForAdd, weeklyHours |-> Number(1),
                    semesterWeeks |-> Number(18), totalHours |-> Number(18)])
            /\ editingAllocation' = NewId(clock)
            /\ selectedSubjectForAdd' = ""
            /\ clock' = clock + 1
            /\ lastOp' = Op("addNewAllocation", "")
            /\ UNCHANGED selectedGrade
    /\ UNCHANGED builderVars
    /\ UNCHANGED pageVars
    /\ UNCHANGED managerVars

\* the state both components are constructed with
AdminInit ==
    /\ teacherAssignments = assignments
    /\ selectedClass = ""
    /\ managerSubject = ""
    /\ selectedTeacher = ""
    /\ assignmentConflicts = << >>
    /\ gradeAllocations = defaultGradeSubjectAllocations
    /\ selectedGrade = "all"
    /\ selectedSubjectForAdd = ""
    /\ editingAllocation = ""
    /\ isPublished = FALSE
    /\ publishedEntries = << >>

----------------------------------------------------------------------------
(* The timetable builder session *)

\* the room catalogue (lib/classroom-data) is supplied to the engine; the catalogues tried
Room(id, roomTypeId, capacity, features, isActive) ==
    [id |-> id, roomTypeId |-> roomTypeId, capacity |-> capacity, features |-> features,
     isActive |-> isActive]

StandardRoom == Room("1", "1", 35, {"Projector", "Whiteboard"}, TRUE)
ClosedRoom == Room("2", "1", 35, {"Projector", "Whiteboard"}, FALSE)
PlainRoom == Room("2", "1", 30, {"Whiteboard"}, TRUE)
SmallRoom == Room("1", "1", 20, {"Projector", "Whiteboard"}, TRUE)
Gymnasium == Room("2", "7", 100, {}, TRUE)

TwinRoom == Room("2", "1", 35, {"Projector", "Whiteboard"}, TRUE)

Catalogues ==
    { << StandardRoom, ClosedRoom >>, << StandardRoom, PlainRoom >>,
      << SmallRoom, Gymnasium >> }

\* the entries a caller may hand over: any class, teacher, slot and optional room
EntryChoices ==
    { [classId |-> c, teacherId |-> t, subjectId |-> "1", roomId |-> r,
       timeSlotId |-> TimeSlotId(cell.day, cell.period), day |-> cell.day,
       period |-> cell.period] :
        c \in {"1", "2"}, t \in {"2", "4"}, r \in {"", "1"}, cell \in {GridCells[1], GridCells[2]} }

WithIds(list, from) ==
    [k \in 1..Len(list) |-> [id |-> from + k] @@ list[k]]

ShortLists(maxLen) ==
    UNION { { WithIds(l, 0) : l \in [1..n -> EntryChoices] } : n \in 0..maxLen }

\* n lessons of one teacher laid over the grid cell by cell, wrapping around when it is full
Bulk(teacherId, n, from) ==
    [k \in 1..n |->
        LET cell == GridCells[((k - 1) % Len(GridCells)) + 1]
        IN [id |-> from + k, classId |-> "1", teacherId |-> teacherId, subjectId |-> "1",
            roomId |-> "", timeSlotId |-> TimeSlotId(cell.day, cell.period),
            day |-> cell.day, period |-> cell.period]]

BulkSizes == {26, 27, 30, 40, 41}

BulkLists ==
    { prefix \o Bulk(t, n, Len(prefix)) :
        prefix \in ShortLists(1), t \in {"2", "4"}, n \in BulkSizes }

InitWith(catalogues, entryLists) ==
    /\ viewMode = "class"
    /\ selectedEntity = ""
    /\ selectedSubject = ""
    /\ timetableEntries \in entryLists
    /\ conflicts = << >>
    /\ showScheduleBuilder = FALSE
    /\ modalSubject = ""
    /\ gridRoomAssignments = << >>
    /\ classrooms \in catalogues
    /\ roomAssignments = << >>
    /\ roomConflicts = << >>
    /\ clock = Len(timetableEntries) + 1
    /\ lastOp = Op("select", "")
    /\ AdminInit

Init == InitWith({ << StandardRoom, PlainRoom >> }, { << >> })

Next ==
    \/ \E m \in {"class", "teacher"} : handleViewModeChange(m)
    \/ \E e \in EntityChoices : handleEntityChange(e)
    \/ \E s \in SubjectChoices : selectSubject(s)
    \/ clearSubject
    \/ \E c \in CellChoices : handleSlotClick(c.day, c.period, MaxEntries)
    \/ \E c \in CellChoices : removeEntry(c.day, c.period)
    \/ \E b \in BOOLEAN : setShowScheduleBuilder(b)
    \/ \E s \in SubjectChoices : modalSelectSubject(s)
    \/ \E c \in CellChoices : modalHandleSlotClick(c.day, c.period, MaxEntries)
    \/ \E c \in CellChoices : handleRemoveEntryFromModal(c.day, c.period)

Spec == Init /\ [][Next]_vars

----------------------------------------------------------------------------
(* The room assignment session: entries placed in the grid, rooms assigned by the engine *)

RoomEntityChoices == {"1", "2"}
RoomSubjectChoices == {"1"}
RoomCellChoices == { [day |-> "Monday", period |-> 1], [day |-> "Monday", period |-> 2] }

InitRooms == InitWith(Catalogues, { << >> })

NextRooms ==
    \/ \E e \in RoomEntityChoices : handleEntityChange(e)
    \/ \E s \in RoomSubjectChoices : selectSubject(s)
    \/ \E c \in RoomCellChoices : handleSlotClick(c.day, c.period, MaxRoomEntries)
    \/ \E c \in RoomCellChoices : removeEntry(c.day, c.period)
    \/ handleAutoAssignRooms
    \/ \E i \in 1..Len(timetableEntries), r \in 1..Len(classrooms) :
          saveManualAssignment(timetableEntries[i], classrooms[r].id)

SpecRooms == InitRooms /\ [][NextRooms]_vars

\* one teacher's lessons in the first n configured time slots, one per slot
OverWeek(teacherId, n) ==
    [k \in 1..n |->
        LET slot == CHOOSE s \in timeSlots : s.id = k
        IN [id |-> k, classId |-> "1", teacherId |-> teacherId, subjectId |-> "1",
            roomId |-> "", timeSlotId |-> TimeSlotId(slot.day, slot.period),
            day |-> slot.day, period |-> slot.period]]

\* the grid holding a timetable, its conflicts as every handler of the grid leaves them;
\* the timetables tried are the short lists and one teacher's lessons in distinct slots
OverloadLists == { OverWeek(t, n) : t \in {"2", "4"}, n \in {26, 27, 40} }

InitPublish ==
    /\ viewMode = "class"
    /\ selectedEntity = ""
    /\ selectedSubject = ""
    /\ \/ \E n \in 0..MaxLen : \E l \in [1..n -> EntryChoices] :
             timetableEntries = WithIds(l, 0)
       \/ timetableEntries \in OverloadLists
    /\ conflicts = validateConstraints(timetableEntries)
    /\ showScheduleBuilder = FALSE
    /\ modalSubject = ""
    /\ gridRoomAssignments = << >>
    /\ classrooms = << StandardRoom, PlainRoom >>
    /\ roomAssignments = << >>
    /\ roomConflicts = << >>
    /\ clock = Len(timetableEntries) + 1
    /\ lastOp = Op("select", "")
    /\ AdminInit

NextPublish == handlePublish

SpecPublish == InitPublish /\ [][NextPublish]_vars

\* the grid in class view with one more cell than a two-hour subject can fill
MaxProgressEntries == 4
ProgressEntityChoices == {"1"}
ProgressSubjectChoices == {"5"}
ProgressCellChoices ==
    { [day |-> "Monday", period |-> 1], [day |-> "Monday", period |-> 2],
      [day |-> "Tuesday", period |-> 1], [day |-> "Tuesday", period |-> 2] }

InitProgress == InitWith({ << StandardRoom, PlainRoom >> }, { << >> })

NextProgress ==
    \/ \E e \in ProgressEntityChoices : handleEntityChange(e)
    \/ \E s \in ProgressSubjectChoices : selectSubject(s)
    \/ \E c \in ProgressCellChoices : handleSlotClick(c.day, c.period, MaxProgressEntries)
    \/ \E c \in ProgressCellChoices : removeEntry(c.day, c.period)

SpecProgress == InitProgress /\ [][NextProgress]_vars

\* the same session over catalogues with two equally suitable rooms and with a room
\* that suits no Mathematics lesson
AutoCatalogues == { << StandardRoom, TwinRoom >>, << SmallRoom, Gymnasium >> }

InitAuto == InitWith(AutoCatalogues, { << >> })

SpecAuto == InitAuto /\ [][NextRooms]_vars

----------------------------------------------------------------------------
(* The long room session: class 1 keeps one Mathematics lesson on Monday 2 and, cycle
   after cycle, places a second one on Monday 1, auto-assigns rooms and removes it *)

MaxCycles == 39

Anchor == NewEntry("class", "1", "1", ResolveTeacher("class", "1", "1"), "Monday", 2, 1)

Visitor(now) == NewEntry("class", "1", "1", ResolveTeacher("class", "1", "1"), "Monday", 1, now)

\* roomAssignments after n cycles: the first auto-assign serves the anchor, cycle k serves
\* the entry created at clock k + 1, and removeEntry leaves every one of them in the list
RECURSIVE History(_, _)
History(rooms, n) ==
    IF n = 0
    THEN autoAssignRooms(rooms, << >>, << Anchor >>)
    ELSE autoAssignRooms(rooms, History(rooms, n - 1), << Anchor, Visitor(n + 1) >>)

UtilizationHistories == {MaxCycles - 2, MaxCycles - 1, MaxCycles}

InitUtilization ==
    \E n \in UtilizationHistories :
        /\ viewMode = "class"
        /\ selectedEntity = "1"
        /\ selectedSubject = ""
        /\ timetableEntries = << Anchor >>
        /\ conflicts = validateConstraints(timetableEntries)
        /\ showScheduleBuilder = FALSE
        /\ modalSubject = ""
        /\ classrooms = << StandardRoom, PlainRoom >>
        /\ roomAssignments = History(classrooms, n)
        /\ gridRoomAssignments = roomAssignments
        /\ roomConflicts = detectConflicts(roomAssignments, timetableEntries)
        /\ clock = n + 2
        /\ lastOp = Op("removeEntry", "")
        /\ AdminInit

NextUtilization ==
    \/ \E s \in RoomSubjectChoices : selectSubject(s)
    \/ \E c \in RoomCellChoices : handleSlotClick(c.day, c.period, MaxCycles + 3)
    \/ \E c \in RoomCellChoices : removeEntry(c.day, c.period)
    \/ handleAutoAssignRooms

SpecUtilization == InitUtilization /\ [][NextUtilization]_vars

----------------------------------------------------------------------------
(* The room assignment session with the grid's Publish button *)

PublishSubjectChoices == {"1", "2"}

NextRoomsPublish ==
    \/ \E e \in RoomEntityChoices : handleEntityChange(e)
    \/ \E s \in PublishSubjectChoices : selectSubject(s)
    \/ \E c \in RoomCellChoices : handleSlotClick(c.day, c.period, MaxRoomEntries)
    \/ \E c \in RoomCellChoices : removeEntry(c.day, c.period)
    \/ handleAutoAssignRooms
    \/ \E i \in 1..Len(timetableEntries), r \in 1..Len(classrooms) :
          saveManualAssignment(timetableEntries[i], classrooms[r].id)
    \/ handlePublish

SpecRoomsPublish == Init /\ [][NextRoomsPublish]_vars

\* the same session with the manual-assignment dialog opened for an entry
NextDialog ==
    \/ NextRooms
    \/ \E i \in 1..Len(timetableEntries) : openManualAssignment(timetableEntries[i])

SpecDialog == InitRooms /\ [][NextDialog]_vars

\* the assignment manager on its own: the classes and rows tried
ManagerClassChoices == { "1", "2" }
ManagerSubjectChoices == { "1", "2", "6" }
ManagerTeacherChoices == { "1", "2", "3" }
RemoveChoices ==
    { teacherAssignments[i].id : i \in { j \in 1..Len(teacherAssignments) :
                                            j \in { 2, 7 } \/ j > Len(assignments) } }

InitAssignments == InitWith({ << StandardRoom, PlainRoom >> }, { << >> })

NextAssignments ==
    \/ \E class \in ManagerClassChoices : setSelectedClass(class)
    \/ \E subject \in ManagerSubjectChoices : setSelectedSubject(subject)
    \/ \E teacher \in ManagerTeacherChoices : setSelectedTeacher(teacher)
    \/ addAssignment(MaxAssignmentRows)
    \/ \E id \in RemoveChoices : removeAssignment(id)

SpecAssignments == InitAssignments /\ [][NextAssignments]_vars

\* the assignment manager giving teacher 1 (Mathematics and Science, 25 hours a week)
\* the classes that have no teacher for those subjects yet
MaxWorkloadRows == 11
WorkloadClassChoices == { "2", "3" }
WorkloadSubjectChoices == { "1", "3" }
WorkloadTeacherChoices == { "1" }

NextWorkload ==
    \/ \E class \in WorkloadClassChoices : setSelectedClass(class)
    \/ \E subject \in WorkloadSubjectChoices : setSelectedSubject(subject)
    \/ \E teacher \in WorkloadTeacherChoices : setSelectedTeacher(teacher)
    \/ addAssignment(MaxWorkloadRows)
    \/ \E id \in RemoveChoices : removeAssignment(id)

SpecWorkload == InitAssignments /\ [][NextWorkload]_vars

\* the subject setup form on its own
InitAllocations == InitWith({ << StandardRoom, PlainRoom >> }, { << >> })

NextAllocations ==
    \/ \E grade \in GradeChoices : setSelectedGrade(grade)
    \/ \E subject \in AddSubjectChoices : setSelectedSubjectForAdd(subject)
    \/ \E id \in EditChoices : setEditingAllocation(id)
    \/ \E id \in EditChoices, field \in FieldChoices, text \in InputTexts :
           handleAllocationChange(id, field, text)
    \/ addNewAllocation

SpecAllocations == InitAllocations /\ [][NextAllocations]_vars

----------------------------------------------------------------------------
(* validateConstraints on arbitrary entry collections *)

InitValidate ==
    \/ \E n \in 0..MaxLen : \E l \in [1..n -> EntryChoices] :
          InitWith({ << StandardRoom, PlainRoom >> }, { WithIds(l, 0) })
    \/ InitWith({ << StandardRoom, PlainRoom >> }, BulkLists)

\* setConflicts(validateConstraints(entries))
applyValidateConstraints ==
    /\ lastOp.op # "validateConstraints"
    /\ conflicts' = validateConstraints(timetableEntries)
    /\ lastOp' = Op("validateConstraints", "")
    /\ UNCHANGED << timetableEntries, clock >>
    /\ UNCHANGED gridVars
    /\ UNCHANGED engineVars
    /\ UNCHANGED adminVars

NextValidate == applyValidateConstraints

SpecValidate == InitValidate /\ [][NextValidate]_vars

----------------------------------------------------------------------------
(* The scorer on arbitrary rooms and lessons *)

MaxRooms == 2

RoomTypeChoices == {"1", "7"}
CapacityChoices == {20, 35, 100}
FeatureChoices == { {}, {"Projector", "Whiteboard"} }

RoomKinds ==
    { [roomTypeId |-> t, capacity |-> c, features |-> f, isActive |-> a] :
        t \in RoomTypeChoices, c \in CapacityChoices, f \in FeatureChoices, a \in BOOLEAN }

\* room ids are the positions in the catalogue
WithRoomIds(list) ==
    [k \in 1..Len(list) |-> [id |-> ToString(k)] @@ list[k]]

LessonChoices ==
    { << [id |-> 1, classId |-> c, teacherId |-> "1", subjectId |-> s, roomId |-> "",
          timeSlotId |-> TimeSlotId("Monday", 1), day |-> "Monday", period |-> 1] >> :
        c \in {"1", "2", "5"}, s \in {"1", "2", "5"} }

InitScore ==
    /\ viewMode = "class"
    /\ timetableEntries \in LessonChoices
    /\ selectedEntity = timetableEntries[1].classId
    /\ selectedSubject = ""
    /\ conflicts = << >>
    /\ showScheduleBuilder = FALSE
    /\ modalSubject = ""
    /\ gridRoomAssignments = << >>
    /\ \E n \in 1..MaxRooms : \E l \in [1..n -> RoomKinds] : classrooms = WithRoomIds(l)
    /\ roomAssignments = << >>
    /\ roomConflicts = << >>
    /\ clock = Len(timetableEntries) + 1
    /\ lastOp = Op("select", "")
    /\ AdminInit

NextScore ==
    \E i \in DOMAIN timetableEntries :
        /\ lastOp.op # "openManualAssignment"
        /\ openManualAssignment(timetableEntries[i])

SpecScore == InitScore /\ [][NextScore]_vars

----------------------------------------------------------------------------
(* Properties of validateConstraints *)

Validated == lastOp.op = "validateConstraints"

ConflictsOfType(type) == SelectSeq(conflicts, LAMBDA c : c.type = type)

MentionedBy(c) == Range(c.affectedEntries)

\* C3: whenever two distinct entries of the validated collection share the same
\* (classId, day, period), the result holds at least one teacher_double_booking or
\* room_clash conflict whose affectedEntries contains one of the two entries.
C3_SharedClassSlotIsReported ==
    Validated =>
        \A i, j \in DOMAIN timetableEntries :
            ( /\ i < j
              /\ timetableEntries[i].classId = timetableEntries[j].classId
              /\ SameSlot(timetableEntries[i], timetableEntries[j]) )
            => \E k \in DOMAIN conflicts :
                  /\ conflicts[k].type \in {"teacher_double_booking", "room_clash"}
                  /\ MentionedBy(conflicts[k])
                        \cap {timetableEntries[i].id, timetableEntries[j].id} # {}

\* the positions of a teacher's entries at one slot, in input order
TeacherAt(teacherId, day, period) ==
    { i \in DOMAIN timetableEntries :
        /\ timetableEntries[i].teacherId = teacherId
        /\ timetableEntries[i].day = day
        /\ timetableEntries[i].period = period }

ErrorsListingExactly(id) ==
    Len(SelectSeq(ConflictsOfType("teacher_double_booking"),
                  LAMBDA c : c.affectedEntries = << id >>))

\* C7: for every teacher and every (day, period) where the teacher has k >= 1 entries,
\* the result holds exactly k-1 teacher_double_booking errors: one for each entry after
\* the first in input order, listing exactly that entry's id, and none for the first.
C7_DoubleBookingPerExtraEntry ==
    Validated =>
        /\ \A e \in Range(timetableEntries) :
              LET own == TeacherAt(e.teacherId, e.day, e.period)
                  first == CHOOSE i \in own : \A j \in own : i <= j
                  errs == SelectSeq(ConflictsOfType("teacher_double_booking"),
                              LAMBDA c : \E i \in own : timetableEntries[i].id \in MentionedBy(c))
              IN /\ Len(errs) = Cardinality(own) - 1
                 /\ ErrorsListingExactly(timetableEntries[first].id) = 0
                 /\ \A i \in own \ {first} : ErrorsListingExactly(timetableEntries[i].id) = 1
        /\ \A c \in Range(ConflictsOfType("teacher_double_booking")) :
              /\ c.severity = "error"
              /\ \E i \in DOMAIN timetableEntries : c.affectedEntries = << timetableEntries[i].id >>

\* a teacher booked three times at one slot has been validated
C7_Witness ==
    /\ Validated
    /\ \E e \in Range(timetableEntries) : Cardinality(TeacherAt(e.teacherId, e.day, e.period)) = 3
    /\ Len(ConflictsOfType("teacher_double_booking")) = 2

IdsOf(teacherId) ==
    LET own == SelectSeq(timetableEntries, LAMBDA e : e.teacherId = teacherId)
    IN [k \in DOMAIN own |-> own[k].id]

OverloadWarningsOf(teacherId) ==
    SelectSeq(ConflictsOfType("teacher_overload"),
              LAMBDA c : MentionedBy(c) \cap Range(IdsOf(teacherId)) # {})

\* C8: for every registered teacher the result holds exactly one teacher_overload
\* warning, listing all of the teacher's entry ids, when the number of the teacher's
\* entries times the period duration strictly exceeds the weeklyHourLimit, and no such
\* warning when it is equal or lower.
C8_OverloadWarningIffOverLimit ==
    Validated =>
        \A t \in DOMAIN teachers :
            LET ids == IdsOf(teachers[t].id)
                warnings == OverloadWarningsOf(teachers[t].id)
            IN IF Len(ids) * periodDuration > teachers[t].weeklyHourLimit * 60
               THEN /\ Len(warnings) = 1
                    /\ warnings[1].severity = "warning"
                    /\ warnings[1].affectedEntries = ids
               ELSE Len(warnings) = 0

\* the teacher with a 20 hour limit holds 30 lessons of 45 minutes and is warned about
C8_Witness ==
    /\ Validated
    /\ Len(IdsOf("4")) = 30
    /\ teachers[TeacherOf("4")].weeklyHourLimit = 20
    /\ Len(OverloadWarningsOf("4")) = 1
    /\ Len(OverloadWarningsOf("4")[1].affectedEntries) = 30

----------------------------------------------------------------------------
(* Properties of the suitability score *)

\* the suggestions on display once the manual assignment dialog is open for a lesson
Displayed ==
    IF lastOp.op = "openManualAssignment"
    THEN generateRoomSuggestions(timetableEntries[EntryById(timetableEntries, lastOp.entry)],
                                 classrooms, roomAssignments, timetableEntries)
    ELSE << >>

DisplayedLesson == timetableEntries[EntryById(timetableEntries, lastOp.entry)]

RoomOf(suggestion) == CHOOSE r \in Range(classrooms) : r.id = suggestion.roomId

StudentCountOf(entry) == classSections[ClassOf(entry.classId)].studentCount

\* the score the room would get for the lesson with each capacity that is sufficient
SufficientScores(room, entry) ==
    { suitabilityScore([room EXCEPT !.capacity = c], entry.subjectId, StudentCountOf(entry)) :
        c \in { c \in CapacityChoices : c >= StudentCountOf(entry) } }

\* C6: every suggested room scores >= 0, and a room whose capacity is below the
\* class's studentCount scores at most the score it would get with a sufficient capacity
\* minus 50.
C6_InsufficientCapacityCostsFifty ==
    \A k \in DOMAIN Displayed :
        /\ Displayed[k].suitabilityScore >= 0
        /\ RoomOf(Displayed[k]).capacity < StudentCountOf(DisplayedLesson)
           => \A s \in SufficientScores(RoomOf(Displayed[k]), DisplayedLesson) :
                 Displayed[k].suitabilityScore <= s - 50

\* C6, with the clamp at 0: every suggested room scores >= 0, and a room whose capacity is below the
\* class's studentCount scores at most the larger of 0 and (the score it would get with
\* a sufficient capacity minus 50).
C6_InsufficientCapacityCostsFiftyDownToZero ==
    \A k \in DOMAIN Displayed :
        /\ Displayed[k].suitabilityScore >= 0
        /\ RoomOf(Displayed[k]).capacity < StudentCountOf(DisplayedLesson)
           => \A s \in SufficientScores(RoomOf(Displayed[k]), DisplayedLesson) :
                 Displayed[k].suitabilityScore <= Max0(s - 50)

\* a room too small for the class is on display with a score the clamp does not touch
C6_Witness ==
    \E k \in DOMAIN Displayed :
        /\ RoomOf(Displayed[k]).capacity < StudentCountOf(DisplayedLesson)
        /\ Displayed[k].suitabilityScore > 0
        /\ \E s \in SufficientScores(RoomOf(Displayed[k]), DisplayedLesson) :
              Displayed[k].suitabilityScore = s - 65

----------------------------------------------------------------------------
(* Properties of the room assignment engine *)

ActiveRooms == { r \in Range(classrooms) : r.isActive }

\* several lessons, none with a room yet, all at one (day, period), more of them than
\* there are active rooms, and every active room acceptable (score > 0) for each of them
CrowdedSlot ==
    /\ roomAssignments = << >>
    /\ Len(timetableEntries) > Cardinality(ActiveRooms)
    /\ \A i, j \in DOMAIN timetableEntries : SameSlot(timetableEntries[i], timetableEntries[j])
    /\ \A e \in Range(timetableEntries) :
          /\ ClassOf(e.classId) # 0
          /\ \A r \in ActiveRooms :
                suitabilityScore(r, e.subjectId, StudentCountOf(e)) > 0

\* C1: when several unassigned entries share one (day, period) and there are fewer active
\* rooms than such entries, one autoAssignRooms call creates exactly as many room
\* assignments as there are active rooms and leaves the remaining entries unassigned.
C1_AutoAssignStopsWhenRoomsRunOut ==
    [][ (lastOp'.op = "autoAssignRooms" /\ CrowdedSlot)
        => /\ Len(roomAssignments') = Cardinality(ActiveRooms)
           /\ Cardinality({ e \in Range(timetableEntries) :
                              ~HasAssignment(roomAssignments', e.id) })
                 = Len(timetableEntries) - Cardinality(ActiveRooms) ]_vars

\* an assignment of another lesson holds the room at the lesson's (day, period)
OccupiedByAnother(entryId, roomId) ==
    \E ra \in Range(roomAssignments) :
        /\ ra.timetableEntryId # entryId
        /\ ra.roomId = roomId
        /\ EntryById(timetableEntries, ra.timetableEntryId) # 0
        /\ SameSlot(timetableEntries[EntryById(timetableEntries, ra.timetableEntryId)],
                    timetableEntries[EntryById(timetableEntries, entryId)])

----------------------------------------------------------------------------
(* Properties of the timetable grid and the schedule builder *)

\* the subject a cell click schedules: the modal's selection while it is open
ClickSubject == IF showScheduleBuilder THEN modalSubject ELSE selectedSubject

HasActiveRow(classId, subjectId) ==
    \E a \in Range(assignments) :
        a.classId = classId /\ a.subjectId = subjectId /\ a.isActive

\* C2: after any sequence of addEntry (on cells offered by computeValidSlots, in class or
\* teacher view mode) and removeEntry, no two distinct timetable entries have the same
\* (classId, day, period).
C2_UniqueClassDayPeriod ==
    \A i, j \in DOMAIN timetableEntries :
        i # j => ~( /\ timetableEntries[i].classId = timetableEntries[j].classId
                    /\ SameSlot(timetableEntries[i], timetableEntries[j]) )

\* C5: in class view mode an addEntry for a (class, subject) without an active
\* ClassSubjectTeacher row fails with NoTeacherAssigned and leaves the entries and the
\* conflict list unchanged; in teacher view mode the error never occurs.
C5_NoTeacherAssigned ==
    [][ lastOp'.op = "addEntry"
        => /\ (viewMode = "class" /\ ~HasActiveRow(selectedEntity, ClickSubject))
                => /\ lastOp'.error = "NoTeacherAssigned"
                   /\ timetableEntries' = timetableEntries
                   /\ conflicts' = conflicts
           /\ lastOp'.error = "NoTeacherAssigned"
                => /\ viewMode = "class"
                   /\ timetableEntries' = timetableEntries
                   /\ conflicts' = conflicts ]_vars

\* a class-mode click for a subject nobody teaches in the class has been refused
C5_Witness ==
    /\ lastOp = Op("addEntry", "NoTeacherAssigned")
    /\ viewMode = "class"
    /\ ClickSubject # ""
    /\ ~HasActiveRow(selectedEntity, ClickSubject)

FullyScheduled(subjectId) ==
    /\ subjectId # ""
    /\ IsAvailableSubject(viewMode, selectedEntity, subjectId)
    /\ Percentage(viewMode, selectedEntity, subjectId, timetableEntries) >= 100

FreeCells ==
    { c \in Range(GridCells) :
        ~IsOccupied(viewMode, selectedEntity, timetableEntries, c.day, c.period) }

\* C9: whenever the selected subject's progress for the selected entity is >= 100,
\* computeValidSlots returns the empty list whatever cells are free, and no step adds an
\* entry while that holds.
C9_FullyScheduledOffersNothing ==
    [][ /\ \A s \in {selectedSubject, modalSubject} :
              FullyScheduled(s)
                => computeValidSlots(s, viewMode, selectedEntity, timetableEntries) = << >>
        /\ FullyScheduled(ClickSubject)
              => Len(timetableEntries') <= Len(timetableEntries) ]_vars

\* a fully scheduled subject is the selection a click would schedule, with free cells left
C9_Witness ==
    /\ FullyScheduled(ClickSubject)
    /\ FreeCells # {}
    /\ lastOp.op = "select"

\* the cells of the configured grid: every (day, period) that has a TimeSlot
ConfiguredCells == { [day |-> ts.day, period |-> ts.period] : ts \in timeSlots }

\* C10: when the selected subject's progress is below 100, computeValidSlots returns
\* exactly the (day, period) pairs of the configured grid (every pair with a TimeSlot)
\* at which the selected entity has no entry.
C10_ValidSlotsCoverConfiguredGrid ==
    \A s \in {selectedSubject, modalSubject} :
        ( /\ s # ""
          /\ IsAvailableSubject(viewMode, selectedEntity, s)
          /\ Percentage(viewMode, selectedEntity, s, timetableEntries) < 100 )
        => Range(computeValidSlots(s, viewMode, selectedEntity, timetableEntries))
             = { c \in ConfiguredCells :
                   ~IsOccupied(viewMode, selectedEntity, timetableEntries, c.day, c.period) }


\* C11: in every state reached by adding and removing entries, from the grid or from the
\* schedule-builder modal, the stored conflict list equals validateConstraints applied to
\* the current entries.
C11_ConflictsAreRecomputed ==
    conflicts = validateConstraints(timetableEntries)

\* an addition has just double-booked a teacher and the stored list reports it
C11_Witness ==
    /\ lastOp = Op("addEntry", "")
    /\ Len(timetableEntries) >= 2
    /\ \E c \in Range(conflicts) : c.type = "teacher_double_booking"


\* C12: in every state reached by any interleaving of addEntry, removeEntry,
\* autoAssignRooms and assignRoomManually, the stored room-conflict list equals
\* detectConflicts applied to the current room assignments joined to the current entries.
C12_RoomConflictsAreRecomputed ==
    roomConflicts = detectConflicts(roomAssignments, timetableEntries)


AssignmentsOf(entryId) ==
    SelectSeq(roomAssignments, LAMBDA ra : ra.timetableEntryId = entryId)

\* C13: after any sequence of autoAssignRooms and assignRoomManually calls every timetable
\* entry has at most one room assignment.
C13_OneAssignmentPerEntry ==
    /\ \A e \in Range(timetableEntries) : Len(AssignmentsOf(e.id)) <= 1
    /\ \A ra \in Range(roomAssignments) : Len(AssignmentsOf(ra.timetableEntryId)) = 1

\* a manual assignment has replaced the automatic one of an entry that was assigned
\* before a later entry
C13_Witness ==
    /\ lastOp.op = "assignRoomManually"
    /\ lastOp.error = ""
    /\ Len(roomAssignments) = 2
    /\ roomAssignments[1].isAutoAssigned
    /\ roomAssignments[1].timetableEntryId > lastOp.entry
    /\ roomAssignments[2] = ManualAssignment(
           timetableEntries[EntryById(timetableEntries, lastOp.entry)], lastOp.room)


----------------------------------------------------------------------------
(* The assignment table of the teacher assignment manager *)

\* the active row addAssignment finds for the selected class and subject, 0 if none
Reassigned ==
    IF selectedClass = "" \/ managerSubject = "" \/ selectedTeacher = ""
    THEN 0
    ELSE existingAssignment(teacherAssignments, selectedClass, managerSubject)

\* C14: when addAssignment reassigns the teacher of a (class, subject) that
\* already has an active row, the table afterwards still holds the previous
\* binding as a deactivated row: same class, subject and old teacher,
\* isActive = FALSE.
C14_ReassignKeepsOldRowInactive ==
    [][(lastOp'.op = "addAssignment" /\ lastOp'.error = "" /\ Reassigned # 0)
          => \E row \in Range(teacherAssignments') :
                /\ row.classId = teacherAssignments[Reassigned].classId
                /\ row.subjectId = teacherAssignments[Reassigned].subjectId
                /\ row.teacherId = teacherAssignments[Reassigned].teacherId
                /\ ~row.isActive]_vars

ActiveRowsOf(classId, subjectId) ==
    { i \in 1..Len(teacherAssignments) :
          /\ teacherAssignments[i].classId = classId
          /\ teacherAssignments[i].subjectId = subjectId
          /\ teacherAssignments[i].isActive }

AtMostOneActiveRow ==
    \A a \in Range(teacherAssignments) : Cardinality(ActiveRowsOf(a.classId, a.subjectId)) <= 1

RemovalOnlyDeactivates ==
    lastOp'.op = "removeAssignment"
        => /\ Len(teacherAssignments') = Len(teacherAssignments)
           /\ \A i \in 1..Len(teacherAssignments) :
                 teacherAssignments'[i] =
                     IF teacherAssignments[i].id = lastOp'.id
                     THEN [teacherAssignments[i] EXCEPT !.isActive = FALSE]
                     ELSE teacherAssignments[i]

\* C15: after any sequence of addAssignment and removeAssignment calls there is
\* at most one active row per (classId, subjectId), and a removeAssignment step
\* keeps every row, changing only isActive of the removed one to FALSE.
C15_AtMostOneActiveRowPerClassSubject ==
    []AtMostOneActiveRow /\ [][RemovalOnlyDeactivates]_vars

\* a (class, subject) was removed and assigned again: its old row is kept
\* inactive next to the new active one, and another pair was reassigned in place
C15_Witness ==
    /\ lastOp = Op("addAssignment", "")
    /\ Len(teacherAssignments) = Len(assignments) + 1
    /\ \E i \in 1..Len(assignments) :
          /\ ~teacherAssignments[i].isActive
          /\ teacherAssignments[Len(teacherAssignments)].classId = teacherAssignments[i].classId
          /\ teacherAssignments[Len(teacherAssignments)].subjectId = teacherAssignments[i].subjectId
          /\ teacherAssignments[Len(teacherAssignments)].isActive
    /\ \E i \in 1..Len(assignments) :
          /\ teacherAssignments[i].isActive
          /\ teacherAssignments[i].teacherId # assignments[i].teacherId


----------------------------------------------------------------------------
(* The allocation table of the subject setup form *)

\* a === b on numbers: NaN equals nothing, itself included
StrictEquals(a, b) == ~a.nan /\ ~b.nan /\ a.val = b.val

TotalIsProduct(row) ==
    StrictEquals(row.totalHours, Times(row.weeklyHours, row.semesterWeeks))

UniquePerGradeSubject ==
    \A i, j \in 1..Len(gradeAllocations) :
        (/\ gradeAllocations[i].gradeId = gradeAllocations[j].gradeId
         /\ gradeAllocations[i].subjectId = gradeAllocations[j].subjectId) => i = j

\* C16: after any sequence of allocation edits and additions every row
\* satisfies totalHours = weeklyHours x semesterWeeks, and no two rows share
\* the same (gradeId, subjectId).
C16_TotalIsProductAndRowsUnique ==
    /\ \A row \in Range(gradeAllocations) : TotalIsProduct(row)
    /\ UniquePerGradeSubject

\* the same with rows whose edited field did not parse to a number set aside
TotalIsProductWhereNumeric ==
    /\ \A row \in Range(gradeAllocations) :
          (~row.weeklyHours.nan /\ ~row.semesterWeeks.nan) => TotalIsProduct(row)
    /\ UniquePerGradeSubject


----------------------------------------------------------------------------
(* Room type against capacity and features in the suggestions on display *)

\* the room's type is a priority-1 required preference of the subject
IsRequiredFirstChoice(room, subjectId) ==
    LET i == RoomTypePreference(subjectId, room.roomTypeId)
    IN  i # 0 /\ subjectRoomTypes[i].priority = 1 /\ subjectRoomTypes[i].isRequired

\* the subject has preferences and the room's type is none of them
IsNotPreferred(room, subjectId) ==
    HasPreferences(subjectId) /\ RoomTypePreference(subjectId, room.roomTypeId) = 0

\* C17: for a subject with a priority-1 required room-type preference, every
\* suggested room of that type scores strictly higher than every suggested room
\* whose type is not among the subject's preferences, whatever the capacities
\* and features of the two rooms.
C17_RequiredTypeOutscoresNonPreferred ==
    \A k, j \in DOMAIN Displayed :
        (/\ IsRequiredFirstChoice(RoomOf(Displayed[k]), DisplayedLesson.subjectId)
         /\ IsNotPreferred(RoomOf(Displayed[j]), DisplayedLesson.subjectId))
            => Displayed[k].suitabilityScore > Displayed[j].suitabilityScore

\* the hardest pair is on display: a required-type room that is too small and lacks
\* the features, next to a non-preferred room that fits the class and has them
C17_Witness ==
    \E k, j \in DOMAIN Displayed :
        /\ IsRequiredFirstChoice(RoomOf(Displayed[k]), DisplayedLesson.subjectId)
        /\ RoomOf(Displayed[k]).capacity < StudentCountOf(DisplayedLesson)
        /\ ~(requiredFeatures \subseteq RoomOf(Displayed[k]).features)
        /\ IsNotPreferred(RoomOf(Displayed[j]), DisplayedLesson.subjectId)
        /\ RoomOf(Displayed[j]).capacity >= StudentCountOf(DisplayedLesson)
        /\ 10 * StudentCountOf(DisplayedLesson) > 8 * RoomOf(Displayed[j]).capacity
        /\ requiredFeatures \subseteq RoomOf(Displayed[j]).features
        /\ Displayed[k].suitabilityScore = 60
        /\ Displayed[j].suitabilityScore = 5


\* C19: the suitabilityScore of every room suggestion lies between 0 and 100
\* inclusive.
C19_ScoreWithinZeroToHundred ==
    \A k \in DOMAIN Displayed :
        Displayed[k].suitabilityScore >= 0 /\ Displayed[k].suitabilityScore <= 100


----------------------------------------------------------------------------
(* The rooms offered for an entry *)

\* the active rooms no other entry's assignment occupies at the entry's (day, period)
FreeForEntry(entryId) ==
    { r.id : r \in { x \in Range(classrooms) :
                        x.isActive /\ ~OccupiedByAnother(entryId, x.id) } }

\* C20: for an entry whose class and subject resolve, the suggestions hold
\* exactly one suggestion for each active room that no other entry's assignment
\* occupies at the entry's (day, period), and none for any other room; too
\* small a capacity or a non-preferred room type removes no room.
C20_OneSuggestionPerFreeActiveRoom ==
    lastOp.op = "openManualAssignment"
        => /\ { Displayed[k].roomId : k \in DOMAIN Displayed } = FreeForEntry(lastOp.entry)
           /\ Len(Displayed) = Cardinality(FreeForEntry(lastOp.entry))


----------------------------------------------------------------------------
(* The room conflicts stored by a detectConflicts call *)

\* the last handler ended with detectConflicts on the assignments it stored
Detected ==
    /\ lastOp.op \in { "autoAssignRooms", "assignRoomManually" }
    /\ lastOp.error = ""

\* the entries of the assignments on the room whose entry exists and lies at (day, period)
GroupOf(roomId, day, period) ==
    { ra.timetableEntryId : ra \in { x \in Range(roomAssignments) :
          /\ x.roomId = roomId
          /\ EntryById(timetableEntries, x.timetableEntryId) # 0
          /\ timetableEntries[EntryById(timetableEntries, x.timetableEntryId)].day = day
          /\ timetableEntries[EntryById(timetableEntries, x.timetableEntryId)].period = period } }

ConflictsAt(roomId, day, period) ==
    { k \in DOMAIN roomConflicts :
          roomConflicts[k].roomId = roomId /\ roomConflicts[k].timeSlotId = << day, period >> }

\* C18: detectConflicts stores exactly one RoomConflict for every (roomId, day,
\* period) group of more than one assignment, listing the entry ids of all the
\* group's members once each with severity error, and none for a group of one
\* or for an assignment whose entry no longer exists.
C18_OneConflictPerSharedRoomSlot ==
    Detected =>
        /\ \A ra \in Range(roomAssignments) :
              LET i == EntryById(timetableEntries, ra.timetableEntryId)
              IN  i # 0 =>
                    Cardinality(ConflictsAt(ra.roomId, timetableEntries[i].day,
                                            timetableEntries[i].period))
                        = IF Cardinality(GroupOf(ra.roomId, timetableEntries[i].day,
                                                 timetableEntries[i].period)) > 1
                          THEN 1 ELSE 0
        /\ \A k \in DOMAIN roomConflicts :
              LET group == GroupOf(roomConflicts[k].roomId, roomConflicts[k].timeSlotId[1],
                                   roomConflicts[k].timeSlotId[2])
              IN  /\ roomConflicts[k].severity = "error"
                  /\ Cardinality(group) > 1
                  /\ Range(roomConflicts[k].conflictingEntries) = group
                  /\ Len(roomConflicts[k].conflictingEntries) = Cardinality(group)

\* two assignments share a room and slot and the one stored conflict lists both entries
C18_Witness ==
    /\ Detected
    /\ Len(roomConflicts) = 1
    /\ Len(roomConflicts[1].conflictingEntries) = 2
    /\ Len(roomAssignments) = 2


----------------------------------------------------------------------------
(* The assignments one autoAssignRooms call adds *)

\* catalogue positions of the active rooms no assignment held before the call
\* occupies at the entry's (day, period)
CandidatesBefore(entry) ==
    { k \in 1..Len(classrooms) :
          classrooms[k].isActive /\ ~OccupiedByAnother(entry.id, classrooms[k].id) }

ScoreAt(k, entry) ==
    suitabilityScore(classrooms[k], entry.subjectId, StudentCountOf(entry))

\* the highest-scoring candidate, the earliest in the catalogue among equals
BestBefore(entry) ==
    CHOOSE k \in CandidatesBefore(entry) :
        \A j \in CandidatesBefore(entry) :
            \/ ScoreAt(k, entry) > ScoreAt(j, entry)
            \/ ScoreAt(k, entry) = ScoreAt(j, entry) /\ k <= j

\* the entry gets a room from the call
GetsRoom(entry) ==
    /\ ~HasAssignment(roomAssignments, entry.id)
    /\ ClassOf(entry.classId) # 0
    /\ CandidatesBefore(entry) # {}
    /\ ScoreAt(BestBefore(entry), entry) > 0

----------------------------------------------------------------------------
(* Reasons and warnings of the suggestions on display *)

\* a negative contribution was applied to the room: non-preferred type or too small
Penalised(room, entry) ==
    \/ IsNotPreferred(room, entry.subjectId)
    \/ room.capacity < StudentCountOf(entry)

\* a positive contribution was applied to the room: type, capacity or features
Rewarded(room, entry) ==
    \/ RoomTypePreference(entry.subjectId, room.roomTypeId) # 0
    \/ room.capacity >= StudentCountOf(entry)
    \/ requiredFeatures \subseteq room.features

\* C22: a suggestion carries a warning only when a negative score contribution
\* (non-preferred room type, insufficient capacity) was applied to its room, and
\* a reason only when a positive contribution was applied.
C22_WarningsOnlyForPenalties ==
    \A k \in DOMAIN Displayed :
        /\ Len(Displayed[k].warnings) > 0 => Penalised(RoomOf(Displayed[k]), DisplayedLesson)
        /\ Len(Displayed[k].reasons) > 0 => Rewarded(RoomOf(Displayed[k]), DisplayedLesson)


----------------------------------------------------------------------------
(* Publishing and the schedule-level conflicts *)

\* two entries of the snapshot have the same teacher at the same (day, period)
HasTeacherDoubleBooking(entries) ==
    \E i, j \in 1..Len(entries) :
        /\ i # j
        /\ entries[i].teacherId = entries[j].teacherId
        /\ SameSlot(entries[i], entries[j])

\* the conflict list holds teacher_overload warnings and nothing else
OverloadWarningsOnly ==
    /\ conflicts # << >>
    /\ \A c \in Range(conflicts) : c.type = "teacher_overload" /\ c.severity = "warning"

----------------------------------------------------------------------------
(* Rooms shared by the assignments of a session *)

\* C24: starting from no room assignments, after any sequence of autoAssignRooms
\* and assignRoomManually calls no two assignments of distinct entries at one
\* (day, period) have the same roomId: detectConflicts on the assignments is empty.
C24_NoRoomHeldTwice ==
    /\ detectConflicts(roomAssignments, timetableEntries) = << >>
    /\ \A a, b \in Range(roomAssignments) :
          LET i == EntryById(timetableEntries, a.timetableEntryId)
              j == EntryById(timetableEntries, b.timetableEntryId)
          IN  (i # 0 /\ j # 0 /\ i # j /\ SameSlot(timetableEntries[i], timetableEntries[j]))
                  => a.roomId # b.roomId


----------------------------------------------------------------------------
(* Capacity of the rooms autoAssignRooms hands out *)

EntryOf(assignment) ==
    timetableEntries[EntryById(timetableEntries, assignment.timetableEntryId)]

RoomById(roomId) == CHOOSE r \in Range(classrooms) : r.id = roomId

TooSmall(assignment) ==
    RoomById(assignment.roomId).capacity < StudentCountOf(EntryOf(assignment))

----------------------------------------------------------------------------
(* Scheduled hours against the allocation, class view *)

\* the number of entries of the class in the subject
LessonsOf(classId, subjectId) ==
    Len(ScheduledEntries("class", classId, subjectId, timetableEntries))

\* the (class, subject) pairs with a positive allocation
AllocatedPairs ==
    { << c.id, s >> : c \in Range(classSections), s \in Range(subjects) } \cap
    { p \in { << c.id, s >> : c \in Range(classSections), s \in Range(subjects) } :
          AllocatedHours(classSections[ClassOf(p[1])].gradeId, p[2]) > 0 }

WeeklyHoursOf(p) == AllocatedHours(classSections[ClassOf(p[1])].gradeId, p[2])

\* C26: in class view, after any sequence of addEntry and removeEntry the
\* scheduled hours (entries x periodDuration / 60) of every (class, subject)
\* with a positive allocation never exceed the allocation's weeklyHours.
C26_ScheduledHoursWithinAllocation ==
    \A p \in AllocatedPairs :
        LessonsOf(p[1], p[2]) * periodDuration <= WeeklyHoursOf(p) * 60

\* C26, with the cap applied before the entry is added: the scheduled hours of
\* every (class, subject) with a positive allocation stay below the allocation's
\* weeklyHours plus one period, because an entry is added only while the hours
\* scheduled so far are below weeklyHours.
C26_ScheduledHoursOvershootByLessThanOnePeriod ==
    \A p \in AllocatedPairs :
        LessonsOf(p[1], p[2]) > 0
            => (LessonsOf(p[1], p[2]) - 1) * periodDuration < WeeklyHoursOf(p) * 60

\* class 1 holds three lessons of its two-hour subject, 2.25 hours, and a fourth
\* cell is free
C26_Witness ==
    /\ viewMode = "class"
    /\ selectedEntity = "1"
    /\ lastOp = Op("addEntry", "")
    /\ LessonsOf("1", "5") = 3
    /\ WeeklyHoursOf(<< "1", "5" >>) = 2
    /\ \E c \in ProgressCellChoices :
          ~IsOccupied(viewMode, selectedEntity, timetableEntries, c.day, c.period)


----------------------------------------------------------------------------
(* Room assignments and the entries they belong to *)

\* C27: in every state reachable by addEntry, removeEntry, autoAssignRooms and
\* assignRoomManually every room assignment references an entry that is still
\* in the timetable: removing an entry also removes its room assignment.
C27_AssignmentsReferenceLiveEntries ==
    /\ \A ra \in Range(roomAssignments) :
          EntryById(timetableEntries, ra.timetableEntryId) # 0
    /\ \A ra \in Range(gridRoomAssignments) :
          EntryById(timetableEntries, ra.timetableEntryId) # 0

----------------------------------------------------------------------------
(* C28: for every room, the number of assignments to it is at most totalSlots and its
   utilization percentage lies between 0 and 100 *)
C28_UtilizationWithinTotalSlots ==
    \A r \in Range(classrooms) :
        /\ occupiedSlots(r, roomAssignments) <= totalSlots
        /\ utilizationPercentage(r, roomAssignments) \in 0..100

----------------------------------------------------------------------------
(* C29: Publish is never triggered while detectConflicts on the current room
   assignments yields an error-severity RoomConflict (a double-booked room) *)
RoomDoubleBooked ==
    \E c \in Range(detectConflicts(roomAssignments, timetableEntries)) :
        c.severity = "error"

C29_NoPublishWhileRoomDoubleBooked ==
    [][lastOp'.op = "publish" => ~RoomDoubleBooked]_vars

----------------------------------------------------------------------------
(* C30: after every addAssignment or removeAssignment the stored conflict list equals the
   validation of the updated assignment table, its teacher_overcommitted warnings being
   those of the workloads of the updated table *)
C30_ConflictsValidateTheUpdatedTable ==
    [][(lastOp'.op \in {"addAssignment", "removeAssignment"} /\ lastOp'.error = "")
          => assignmentConflicts' =
                 validateAssignments(teacherAssignments', teacherAssignments')]_vars

====
